---------------------------- MODULE Spec2Model ----------------------------
(***************************************************************************)
(* Type-function reduction engine of the Luau type checker                 *)
(* (includes/luau/Analysis/src/TypeFunction.cpp): the instance collector,  *)
(* the reduction scheduler (TypeFunctionReducer) and its entry points.     *)
(*                                                                         *)
(* The type graph is a finite arena of named nodes.  A reducer callback    *)
(* (tfit->function->reducer) and the guesser are oracles: every            *)
(* TypeFunctionReductionResult of the bounded value space may come back.   *)
(* The feature flags LuauEagerGeneralization4,                             *)
(* LuauStuckTypeFunctionsStillDispatch and LuauOccursCheckForRefinement    *)
(* are modelled as set.                                                    *)
(***************************************************************************)
EXTENDS Integers, Sequences, FiniteSets, TLC

(***************************************************************************)
(* The arena                                                               *)
(***************************************************************************)

\* absent value: std::nullopt, an unbound node, no subject
NULL == "null"

\* type-function instances (TypeFunctionInstanceType) of the entry graphs
TypeInstances == {"A", "B", "C"}

\* an instance allocated by a reducer (the union instance that union
\* distribution returns); never part of an entry graph before it is returned
FreshInstance == "U"

\* type-pack function instances (TypeFunctionInstanceTypePack)
PackInstances == {"P"}

\* table types, which may carry a metatable
TableNodes == {"table1", "table2"}

\* union types; their options are in the variable options
UnionNodes == {"union1", "union2"}

TypeNodes ==
    TypeInstances \cup {FreshInstance} \cup {"number", "generic", "blocked", "inter", "fn"}
        \cup {"never", "any", "error", "string"} \cup TableNodes \cup UnionNodes

PackNodes == PackInstances \cup {"pack", "gpack"}

Nodes == TypeNodes \cup PackNodes

\* the variant a node was allocated with
kindOf(n) ==
    CASE n \in TypeInstances \cup {FreshInstance} -> "TypeFunctionInstanceType"
      [] n \in PackInstances -> "TypeFunctionInstanceTypePack"
      [] n \in {"number", "string"} -> "PrimitiveType"
      [] n = "never" -> "NeverType"
      [] n = "any" -> "AnyType"
      [] n = "error" -> "ErrorType"
      [] n \in TableNodes -> "TableType"
      [] n \in UnionNodes -> "UnionType"
      [] n = "generic" -> "GenericType"
      [] n = "blocked" -> "BlockedType"
      [] n = "inter" -> "IntersectionType"
      [] n = "fn" -> "FunctionType"
      [] n = "pack" -> "TypePack"
      [] n = "gpack" -> "GenericTypePack"

\* the function type fn is <generic>(generic) -> (): ftv.generics and the
\* types of ftv.argTypes
generics == {"generic"}

argTypes == <<"generic">>

\* tri-state of a type-function instance
TypeFunctionInstanceState == {"Unsolved", "Solved", "Stuck"}

\* Reduction status of a reducer's answer
Reduction == {"MaybeOk", "Irreducible", "Erroneous"}

\* the TypeFunction descriptors used: name |-> canReduceGenerics
canReduceGenerics(name) == name \in {"and", "or", "refine"}

(***************************************************************************)
(* Bounds                                                                  *)
(***************************************************************************)

\* DFInt::LuauTypeFamilyGraphReductionMaximumSteps, scaled down
MaxSteps == 6

\* reduction requests the constraint solver makes in a behaviour
Requests == 1

\* the same when a run is repeated
RepeatedRequests == 2

\* runs that may be suspended inside a reducer at the same time
MaxDepth == 1

\* interrupt checks that find nothing to throw in one call of a body
MaxInterrupts == 1

\* a recursion limit that traversals of the deeper graphs exceed
Shallow == 2

\* a recursion limit that no traversal reaches
Deep == 8

VARIABLES
    typeArguments,      \* instance |-> sequence of type arguments
    packArguments,      \* instance |-> sequence of pack arguments
    parts,              \* parts of the intersection node
    options,            \* union node |-> its options
    function,           \* instance |-> name of its TypeFunction
    owningArena,        \* node |-> "arena" (ctx.arena) or "foreign"
    guesserDepth,       \* DFInt::LuauTypeFamilyUseGuesserDepth
    boundTo,            \* node |-> node it is bound to, or NULL
    state,              \* type instance |-> tri-state
    reentrantTypeReduction, \* ctx.normalizer->sharedState->reentrantTypeReduction
    pc,                 \* "idle", "loop" (between steps), "reducer" (inside a reducer call)
    reducer,            \* the TypeFunctionReducer of the innermost active run
    iterationCount,     \* of the innermost active run
    subject,            \* instance whose reducer is executing, or NULL
    stack,              \* suspended outer runs, innermost last
    entry,              \* entry point of the innermost active run
    enableReduction,    \* <<oldValue>> of the ScopedAssign in userDefinedTypeFunction, else <<>>
    collected,          \* history: the instances the collector queued (this run)
    atStart,            \* history: the tri-states when this run started
    applied,            \* history: the reductions handleTypeFunctionReduction applied (this run)
    returned,           \* history: outcome of the last request, once it has returned
    runs,               \* history: top-level requests made
    requests,           \* top-level requests still to come
    ctx,                \* the TypeFunctionContext: what its oracles answer, its limits
    operation,          \* a builtin type function applied on its own: arguments and outcome
    sandbox             \* the call of userDefinedTypeFunction in progress

vars == <<typeArguments, packArguments, parts, options, function, owningArena,
          guesserDepth,
          boundTo, state, reentrantTypeReduction, pc, reducer, iterationCount,
          subject, stack, entry, enableReduction, collected, atStart, applied,
          returned, runs,
          requests, ctx, operation, sandbox>>

graphVars == <<typeArguments, packArguments, parts, options, function, owningArena,
               guesserDepth>>

\* what a step of the scheduler leaves alone
callVars == <<ctx, operation, sandbox>>

(***************************************************************************)
(* follow and get<T>                                                       *)
(***************************************************************************)

RECURSIVE follow(_)
follow(ty) == IF boundTo[ty] = NULL THEN ty ELSE follow(boundTo[ty])

\* get<T>(ty): the node still holds the variant T (it has not been bound)
is(ty, kind) == boundTo[ty] = NULL /\ kindOf(ty) = kind

isInstance(n) == is(n, "TypeFunctionInstanceType") \/ is(n, "TypeFunctionInstanceTypePack")

\* children the visitors walk into
children(n) ==
    IF boundTo[n] # NULL THEN <<boundTo[n]>>
    ELSE IF isInstance(n) THEN typeArguments[n] \o packArguments[n]
    ELSE IF kindOf(n) = "IntersectionType" THEN parts
    ELSE IF kindOf(n) = "UnionType" THEN options[n]
    ELSE IF kindOf(n) = "FunctionType" THEN argTypes
    ELSE <<>>

(***************************************************************************)
(* InstanceCollector                                                       *)
(***************************************************************************)

Range(s) == {s[i] : i \in DOMAIN s}

EmptyCollector ==
    [seen |-> {}, tys |-> <<>>, tps |-> <<>>, shouldGuess |-> {},
     typeFunctionInstanceStack |-> <<>>, cyclicInstance |-> <<>>,
     depth |-> 0, deepest |-> 0]

\* a collector that never reports a true cycle
cycle_ignored(ty, c) == c

\* InstanceCollector::cycle
cycle(ty, c) ==
    LET t == follow(ty) IN
    IF ty \in TypeNodes /\ is(t, "TypeFunctionInstanceType")
          /\ t \in Range(c.typeFunctionInstanceStack)
    THEN [c EXCEPT !.cyclicInstance = Append(@, t)]
    ELSE c

\* a collector that has no queue for pack instances
InstanceCollector_visit_typesOnly(n, c) ==
    LET stk == Append(c.typeFunctionInstanceStack, n)
        c1 == [c EXCEPT !.typeFunctionInstanceStack = stk]
    IN IF n \in TypeNodes /\ n \notin Range(c1.tys)
       THEN [c1 EXCEPT !.tys = <<n>> \o @]
       ELSE c1

\* a collector that flags an instance as soon as the stack reaches the depth
InstanceCollector_visit_atDepth(n, c) ==
    LET stk == Append(c.typeFunctionInstanceStack, n)
        c1 == [c EXCEPT !.typeFunctionInstanceStack = stk]
        c2 == IF guesserDepth >= 0 /\ Len(stk) >= guesserDepth
              THEN [c1 EXCEPT !.shouldGuess = @ \cup {n}] ELSE c1
    IN IF n \in TypeNodes
       THEN (IF n \in Range(c2.tys) THEN c2 ELSE [c2 EXCEPT !.tys = <<n>> \o @])
       ELSE (IF n \in Range(c2.tps) THEN c2 ELSE [c2 EXCEPT !.tps = <<n>> \o @])

\* InstanceCollector::visit for both instance kinds: the part before the arguments
InstanceCollector_visit(n, c) ==
    LET stk == Append(c.typeFunctionInstanceStack, n)
        c1 == [c EXCEPT !.typeFunctionInstanceStack = stk]
        c2 == IF guesserDepth >= 0 /\ Len(stk) > guesserDepth
              THEN [c1 EXCEPT !.shouldGuess = @ \cup {n}] ELSE c1
    IN IF n \in TypeNodes
       THEN (IF n \in Range(c2.tys) THEN c2 ELSE [c2 EXCEPT !.tys = <<n>> \o @])
       ELSE (IF n \in Range(c2.tps) THEN c2 ELSE [c2 EXCEPT !.tps = <<n>> \o @])

\* the RecursionLimiter at the head of traverse: one more call is active;
\* deepest is the largest number of calls that were active at once
RecursionLimiter(c) ==
    [c EXCEPT !.depth = @ + 1,
              !.deepest = IF c.depth + 1 > @ THEN c.depth + 1 ELSE @]

RECURSIVE traverse(_, _)
RECURSIVE traverseAll(_, _)

\* a traversal whose visit is not restricted to function instances
traverse_anyNode(n, c) ==
    IF n \in c.seen THEN [cycle(n, RecursionLimiter(c)) EXCEPT !.depth = c.depth]
    ELSE LET c1 == [RecursionLimiter(c) EXCEPT !.seen = @ \cup {n}]
             c2 == traverseAll(children(n), InstanceCollector_visit(n, c1))
         IN [c2 EXCEPT !.typeFunctionInstanceStack = SubSeq(@, 1, Len(@) - 1),
                       !.depth = c.depth]

\* TypeOnceVisitor::traverse specialised to the collector's visit overloads
traverse(n, c) ==
    IF n \in c.seen THEN [cycle(n, RecursionLimiter(c)) EXCEPT !.depth = c.depth]
    ELSE LET c1 == [RecursionLimiter(c) EXCEPT !.seen = @ \cup {n}] IN
         IF isInstance(n)
         THEN LET c2 == traverseAll(children(n), InstanceCollector_visit(n, c1))
              IN [c2 EXCEPT !.typeFunctionInstanceStack = SubSeq(@, 1, Len(@) - 1),
                            !.depth = c.depth]
         ELSE [traverseAll(children(n), c1) EXCEPT !.depth = c.depth]

traverseAll(s, c) ==
    IF s = <<>> THEN c ELSE traverseAll(Tail(s), traverse(Head(s), c))

\* the collector after collector.traverse(entrypoint)
InstanceCollector(entrypoint) == traverse(entrypoint, EmptyCollector)

(***************************************************************************)
(* UnscopedGenericFinder                                                   *)
(***************************************************************************)

\* the finder before finder.traverse(subject)
EmptyFinder == [seen |-> {}, foundUnscoped |-> FALSE]

\* UnscopedGenericFinder::visit for GenericType and GenericTypePack; scope
\* is scopeGenTys and scopeGenTps
visitGeneric(n, scope, f) ==
    IF n \in scope THEN f ELSE [f EXCEPT !.foundUnscoped = TRUE]

RECURSIVE finderTraverse(_, _, _)
RECURSIVE finderTraverseAll(_, _, _)

\* TypeOnceVisitor::traverse specialised to the finder's visit overloads
finderTraverse(n, scope, f) ==
    IF n \in f.seen THEN f
    ELSE LET f1 == [f EXCEPT !.seen = @ \cup {n}] IN
         IF is(n, "GenericType") \/ is(n, "GenericTypePack") THEN visitGeneric(n, scope, f1)
         ELSE IF f1.foundUnscoped THEN f1
         ELSE IF is(n, "FunctionType")
         THEN finderTraverseAll(argTypes, scope \cup generics, f1)
         ELSE finderTraverseAll(children(n), scope, f1)

finderTraverseAll(todo, scope, f) ==
    IF todo = <<>> THEN f
    ELSE finderTraverseAll(Tail(todo), scope, finderTraverse(Head(todo), scope, f))

\* finder.traverse(subject); finder.foundUnscoped
UnscopedGenericFinder(ty) == finderTraverse(ty, {}, EmptyFinder).foundUnscoped

(***************************************************************************)
(* TypeFunctionReducer                                                     *)
(***************************************************************************)

EmptyResult ==
    [errors |-> <<>>, messages |-> <<>>, blockedTypes |-> {}, blockedPacks |-> {},
     reducedTypes |-> {}, reducedPacks |-> {}, irreducibleTypes |-> {}]

\* the reducer's fields when no run is active
NoReducer ==
    [queuedTys |-> <<>>, queuedTps |-> <<>>, shouldGuess |-> {},
     cyclicTypeFunctions |-> <<>>, irreducible |-> {}, result |-> EmptyResult,
     force |-> FALSE]

\* TypeFunctionReducer::TypeFunctionReducer
NewReducer(c, f) ==
    [queuedTys |-> c.tys, queuedTps |-> c.tps, shouldGuess |-> c.shouldGuess,
     cyclicTypeFunctions |-> c.cyclicInstance, irreducible |-> {},
     result |-> EmptyResult, force |-> f]

Error(type, ty) == [type |-> type, ty |-> ty]

RECURSIVE skippabilityLoop(_, _, _)
\* the while loop of testForSkippability(TypeId)
skippabilityLoop(r, queue, seen) ==
    IF queue = <<>> THEN "Okay"
    ELSE LET t == Head(queue) IN
         IF t \in seen THEN skippabilityLoop(r, Tail(queue), seen)
         ELSE IF is(t, "TypeFunctionInstanceType")
         THEN (IF state[t] = "Stuck" THEN "Stuck"
               ELSE IF state[t] = "Solved" THEN "Generic"
               ELSE IF t \in Range(r.cyclicTypeFunctions) THEN "CyclicTypeFunction"
               ELSE IF t \notin r.irreducible THEN "Defer"
               ELSE "Irreducible")
         ELSE IF is(t, "GenericType") THEN "Generic"
         ELSE IF is(t, "IntersectionType")
         THEN skippabilityLoop(r, Tail(queue) \o [i \in DOMAIN parts |-> follow(parts[i])],
                               seen \cup {t})
         ELSE skippabilityLoop(r, Tail(queue), seen \cup {t})

\* testForSkippability(TypeId) and testForSkippability(TypePackId)
testForSkippability(r, ty) ==
    IF ty \in TypeNodes THEN skippabilityLoop(r, <<follow(ty)>>, {})
    ELSE LET tp == follow(ty) IN
         IF is(tp, "TypeFunctionInstanceTypePack")
         THEN (IF tp \notin r.irreducible THEN "Defer" ELSE "Irreducible")
         ELSE IF is(tp, "GenericTypePack") THEN "Generic"
         ELSE "Okay"

RECURSIVE firstNotReady_eager(_, _, _)
\* a test that takes an argument still waiting in the queue for ready
firstNotReady_eager(r, sub, args) ==
    IF args = <<>> THEN "Ready"
    ELSE LET p == Head(args)
             skip == testForSkippability(r, p)
             generic == skip = "Generic" /\ ~canReduceGenerics(function[sub])
         IN IF p \in TypeNodes /\ skip = "Stuck" THEN "Stuck"
            ELSE IF skip = "Irreducible" THEN "Irreducible"
            ELSE IF generic /\ p \in TypeNodes THEN "Solved"
            ELSE IF generic THEN "Irreducible"
            ELSE firstNotReady_eager(r, sub, Tail(args))

RECURSIVE firstNotReady_last(_, _, _)
\* a test that goes through every argument and lets the last one that is not
\* ready decide
firstNotReady_last(r, sub, args) ==
    IF args = <<>> THEN "Ready"
    ELSE LET p == Head(args)
             skip == testForSkippability(r, p)
             generic == skip = "Generic" /\ ~canReduceGenerics(function[sub])
             rest == firstNotReady_last(r, sub, Tail(args))
         IN IF rest # "Ready" THEN rest
            ELSE IF p \in TypeNodes /\ skip = "Stuck" THEN "Stuck"
            ELSE IF skip = "Irreducible" THEN "Irreducible"
            ELSE IF generic /\ p \in TypeNodes THEN "Solved"
            ELSE IF generic THEN "Irreducible"
            ELSE IF skip = "Defer" THEN "Defer"
            ELSE "Ready"

RECURSIVE firstNotReady(_, _, _)
\* the two loops of testParameters: what the first argument that is not ready
\* decides, "Ready" if there is none
firstNotReady(r, sub, args) ==
    IF args = <<>> THEN "Ready"
    ELSE LET p == Head(args)
             skip == testForSkippability(r, p)
             generic == skip = "Generic" /\ ~canReduceGenerics(function[sub])
         IN IF p \in TypeNodes /\ skip = "Stuck" THEN "Stuck"
            ELSE IF skip = "Irreducible" THEN "Irreducible"
            ELSE IF generic /\ p \in TypeNodes THEN "Solved"
            ELSE IF generic THEN "Irreducible"
            ELSE IF skip = "Defer" THEN "Defer"
            ELSE firstNotReady(r, sub, Tail(args))

\* setState(TypeId, state) and setState(TypePackId, state)
setState(st, ty, new) ==
    IF ty \in PackNodes \/ owningArena[ty] # "arena" THEN st
    ELSE [st EXCEPT ![ty] = new]

\* getState(TypeId) and getState(TypePackId)
getState(st, ty) == IF ty \in PackNodes THEN "Unsolved" ELSE st[ty]

\* A machine m is the triple the scheduler mutates:
\*   m.reducer (the TypeFunctionReducer), m.boundTo, m.state
Machine(r, b, st) == [reducer |-> r, boundTo |-> b, state |-> st]

\* a Stuck branch that forgets to mark its subject irreducible
markStuck_unmarked(m, sub) == [m EXCEPT !.state = setState(@, sub, "Stuck")]

\* the Stuck branch of testParameters
markStuck(m, sub) ==
    [m EXCEPT !.reducer.irreducible = @ \cup {sub},
              !.state = setState(@, sub, "Stuck")]

\* a test that marks an instance with a generic dependency irreducible and
\* leaves its tri-state alone
testParameters_unsolved(m, sub) ==
    LET verdict == firstNotReady(m.reducer, sub, typeArguments[sub] \o packArguments[sub])
        marked == [m EXCEPT !.reducer.irreducible = @ \cup {sub}]
    IN CASE verdict = "Ready" -> [ready |-> TRUE, m |-> m]
         [] verdict = "Stuck" -> [ready |-> FALSE, m |-> markStuck(m, sub)]
         [] verdict \in {"Irreducible", "Solved"} -> [ready |-> FALSE, m |-> marked]
         [] verdict = "Defer" ->
              [ready |-> FALSE,
               m |-> IF sub \in TypeNodes
                     THEN [m EXCEPT !.reducer.queuedTys = Append(@, sub)]
                     ELSE [m EXCEPT !.reducer.queuedTps = Append(@, sub)]]

\* a test that sends an instance with an irreducible dependency to the back
\* of its queue
testParameters_requeued(m, sub) ==
    LET verdict == firstNotReady(m.reducer, sub, typeArguments[sub] \o packArguments[sub])
        marked == [m EXCEPT !.reducer.irreducible = @ \cup {sub}]
        queued == IF sub \in TypeNodes
                  THEN [m EXCEPT !.reducer.queuedTys = Append(@, sub)]
                  ELSE [m EXCEPT !.reducer.queuedTps = Append(@, sub)]
    IN CASE verdict = "Ready" -> [ready |-> TRUE, m |-> m]
         [] verdict = "Stuck" -> [ready |-> FALSE, m |-> markStuck(m, sub)]
         [] verdict = "Solved" ->
              [ready |-> FALSE, m |-> [marked EXCEPT !.state = setState(@, sub, "Solved")]]
         [] OTHER -> [ready |-> FALSE, m |-> queued]

\* testParameters: ready is its return value
testParameters(m, sub) ==
    LET verdict == firstNotReady(m.reducer, sub, typeArguments[sub] \o packArguments[sub])
        marked == [m EXCEPT !.reducer.irreducible = @ \cup {sub}]
    IN CASE verdict = "Ready" -> [ready |-> TRUE, m |-> m]
         [] verdict = "Stuck" -> [ready |-> FALSE, m |-> markStuck(m, sub)]
         [] verdict = "Irreducible" -> [ready |-> FALSE, m |-> marked]
         [] verdict = "Solved" ->
              [ready |-> FALSE, m |-> [marked EXCEPT !.state = setState(@, sub, "Solved")]]
         [] verdict = "Defer" ->
              [ready |-> FALSE,
               m |-> IF sub \in TypeNodes
                     THEN [m EXCEPT !.reducer.queuedTys = Append(@, sub)]
                     ELSE [m EXCEPT !.reducer.queuedTps = Append(@, sub)]]

\* a replace that does not look at the arena of its subject
replace_anyArena(m, sub, replacement) ==
    IF sub \in TypeNodes
    THEN [m EXCEPT !.boundTo[sub] = replacement,
                   !.reducer.result.reducedTypes = @ \cup {sub}]
    ELSE [m EXCEPT !.boundTo[sub] = replacement,
                   !.reducer.result.reducedPacks = @ \cup {sub}]

\* a bind that is not recorded in the result
replace_unrecorded(m, sub, replacement) ==
    IF owningArena[sub] # "arena"
    THEN [m EXCEPT !.reducer.result.errors = Append(@, Error("InternalError", NULL))]
    ELSE [m EXCEPT !.boundTo[sub] = replacement]

\* a record in the result without the bind
replace_unbound(m, sub, replacement) ==
    IF owningArena[sub] # "arena"
    THEN [m EXCEPT !.reducer.result.errors = Append(@, Error("InternalError", NULL))]
    ELSE IF sub \in TypeNodes
    THEN [m EXCEPT !.reducer.result.reducedTypes = @ \cup {sub}]
    ELSE [m EXCEPT !.reducer.result.reducedPacks = @ \cup {sub}]

\* TypeFunctionReducer::replace
replace(m, sub, replacement) ==
    IF owningArena[sub] # "arena"
    THEN [m EXCEPT !.reducer.result.errors = Append(@, Error("InternalError", NULL))]
    ELSE IF sub \in TypeNodes
    THEN [m EXCEPT !.boundTo[sub] = replacement, !.reducer.result.reducedTypes = @ \cup {sub}]
    ELSE [m EXCEPT !.boundTo[sub] = replacement, !.reducer.result.reducedPacks = @ \cup {sub}]

\* a report that forgets the blocking packs
recordBlocked_typesOnly(result, reduction) ==
    [result EXCEPT !.blockedTypes = @ \cup reduction.blockedTypes]

\* the two loops that report the reducer's blocking nodes
recordBlocked(result, reduction) ==
    [result EXCEPT !.blockedTypes = @ \cup reduction.blockedTypes,
                   !.blockedPacks = @ \cup reduction.blockedPacks]

\* every failure leaves the instance Stuck
failureState_stuck(status) == "Stuck"

\* the state a definitive or forced failure leaves on an Unsolved instance
failureState(status) ==
    CASE status = "Erroneous" -> "Stuck"
      [] status = "Irreducible" -> "Solved"
      [] status = "MaybeOk" -> "Stuck"

\* a failure that overwrites whatever tri-state the instance has
settle_always(st, sub, status) == setState(st, sub, failureState(status))

\* the tri-state update of a definitive or forced failure
settle(st, sub, status) ==
    IF getState(st, sub) = "Unsolved" THEN setState(st, sub, failureState(status)) ELSE st

RECURSIVE messageErrors(_)
messageErrors(msgs) ==
    IF msgs = <<>> THEN <<>>
    ELSE <<Error("UserDefinedTypeFunctionError", NULL)>> \o messageErrors(Tail(msgs))

\* TypeFunctionReducer::handleTypeFunctionReduction
handleTypeFunctionReduction(m0, sub, reduction) ==
    LET m == [m0 EXCEPT !.reducer.result.messages = @ \o messageErrors(reduction.messages)] IN
    IF reduction.result # NULL THEN replace(m, sub, reduction.result)
    ELSE
      LET m1 == [m EXCEPT !.reducer.irreducible = @ \cup {sub}]
          m2 == IF reduction.error # NULL
                THEN [m1 EXCEPT !.reducer.result.errors =
                                    Append(@, Error("UserDefinedTypeFunctionError", NULL))]
                ELSE m1
      IN IF reduction.reductionStatus # "MaybeOk" \/ m.reducer.force
         THEN LET m3 == [m2 EXCEPT !.state = settle(@, sub, reduction.reductionStatus)]
              IN [m3 EXCEPT !.reducer.result.errors =
                     Append(@, Error(IF sub \in TypeNodes THEN "UninhabitedTypeFunction"
                                     ELSE "UninhabitedTypePackFunction", sub))]
         ELSE [m2 EXCEPT !.reducer.result = recordBlocked(@, reduction)]

\* TypeFunctionReducer::done
done(r) == r.queuedTys = <<>> /\ r.queuedTps = <<>>

\* TypeFunctionReducer::tryGuessing; guess is what guesser.guess(subject) answers
tryGuessing(m, sub, guess) ==
    IF sub \in m.reducer.shouldGuess /\ guess # NULL
    THEN [guessed |-> TRUE, m |-> replace(m, sub, guess)]
    ELSE [guessed |-> FALSE, m |-> m]

\* stepType and stepPack up to the reducer call.  call is TRUE when the step
\* goes on to invoke the function's reducer on sub.
stepSubject(m0, sub, guess) ==
    LET isType == sub \in TypeNodes IN
    IF sub \in m0.reducer.irreducible THEN [call |-> FALSE, m |-> m0]
    ELSE IF ~isInstance(sub) THEN [call |-> FALSE, m |-> m0]
    ELSE IF isType /\ function[sub] = "user" /\ UnscopedGenericFinder(sub)
    THEN [call |-> FALSE,
          m |-> [m0 EXCEPT !.reducer.irreducible = @ \cup {sub},
                           !.reducer.result.irreducibleTypes = @ \cup {sub}]]
    ELSE
      LET testCyclic == IF isType THEN testForSkippability(m0.reducer, sub) ELSE "Okay"
          tp == testParameters(m0, sub)
      IN IF ~tp.ready /\ testCyclic # "CyclicTypeFunction"
         THEN [call |-> FALSE,
               m |-> IF isType /\ tp.m.state[sub] \in {"Stuck", "Solved"}
                     THEN tryGuessing(tp.m, sub, guess).m
                     ELSE tp.m]
         ELSE LET g == tryGuessing(tp.m, sub, guess) IN
              [call |-> ~g.guessed, m |-> g.m]

(***************************************************************************)
(* The context of a reducer call and its oracles                           *)
(***************************************************************************)

\* std::nullopt of an optional type or result, and a normalize that failed
nullopt == [nullopt |-> TRUE]

nullptr == [normalized |-> FALSE]

\* a TypeId held in a reduction result
Ty(n) == [ty |-> n]

\* the context when no oracle is consulted
DefaultContext ==
    [unresolved |-> {}, tooComplex |-> {},
     metatable |-> [t \in TableNodes |-> nullopt],
     accepts |-> <<>>, returns |-> <<>>,
     cartesianProductLimit |-> 0, avoidExcessiveTypeCopying |-> TRUE,
     refine |-> "refined",
     allowEvaluation |-> TRUE, hasErrors |-> FALSE, environmentAlias |-> <<>>,
     environmentFunction |-> <<>>, global |-> TRUE, unserializable |-> {},
     cancellationRequested |-> FALSE, finishTimePassed |-> FALSE]

\* isPending(ty, ctx->solver)
isPending(ty, c) ==
    \/ is(ty, "TypeFunctionInstanceType") /\ state[ty] = "Unsolved"
    \/ is(ty, "BlockedType")
    \/ ty \in c.unresolved

RECURSIVE leaves(_)
\* the types a type is the union of
leaves(ty) ==
    LET t == follow(ty) IN
    IF is(t, "UnionType")
    THEN UNION {leaves(options[t][i]) : i \in DOMAIN options[t]}
    ELSE {t}

\* what the normalizer answers for ty: nullptr when it hits its limits
normalize(c, ty) ==
    IF leaves(ty) \cap c.tooComplex # {} THEN nullptr
    ELSE [normalized |-> TRUE,
          shouldSuppressErrors |-> "any" \in leaves(ty),
          isExactlyNumber |-> leaves(ty) \ {"never"} = {"number"}]

\* findMetatableEntry(ctx->builtins, dummy, ty, metamethod, location)
findMetatableEntry(c, ty, metamethod) ==
    IF ty \in TableNodes /\ c.metatable[ty] # nullopt /\ c.metatable[ty].name = metamethod
    THEN Ty(c.metatable[ty].type)
    ELSE nullopt

\* solveFunctionCall(..., mmType, argPack).typePackId: the call is solved when
\* the arguments are the ones the function accepts
solveFunctionCall(c, mmType, argPack) ==
    IF argPack = c.accepts THEN [typePackId |-> c.returns] ELSE nullopt

\* extendTypePack(arena, builtins, pack, 1).head
extendTypePack(pack) == IF pack = <<>> THEN <<>> ELSE <<Head(pack)>>

(***************************************************************************)
(* Builtin type functions: the arithmetic operators                        *)
(***************************************************************************)

\* the type functions that numericBinopTypeFunction implements
Arithmetic == {"add", "sub", "mul", "div", "idiv", "pow", "mod"}

\* the metamethod each of them passes
metamethodOf(name) ==
    CASE name = "add" -> "__add"
      [] name = "sub" -> "__sub"
      [] name = "mul" -> "__mul"
      [] name = "div" -> "__div"
      [] name = "idiv" -> "__idiv"
      [] name = "pow" -> "__pow"
      [] name = "mod" -> "__mod"

\* a TypeFunctionReductionResult<TypeId> together with the calls made to
\* produce it
Returns(result, reductionStatus, blockedTypes, trace) ==
    [result |-> result, reductionStatus |-> reductionStatus,
     blockedTypes |-> blockedTypes, trace |-> trace]

\* ctx->arena->addType(TypeFunctionInstanceType{unionFunc, results, {}})
unionFunc(results) == [function |-> "union", typeArguments |-> results]

\* the test on the running product of the option counts
exceeds(limit, cartesianProductSize) == limit <= cartesianProductSize

RECURSIVE scanArguments(_, _, _, _, _)
\* the first loop of tryDistributeTypeFunctionApp from argument i on:
\* unionIndex is 0 while no union has been found
scanArguments(arguments, i, unionIndex, cartesianProductSize, c) ==
    IF i > Len(arguments)
    THEN [rejected |-> FALSE, unionIndex |-> unionIndex]
    ELSE LET a == follow(arguments[i]) IN
         IF ~is(a, "UnionType")
         THEN scanArguments(arguments, i + 1, unionIndex, cartesianProductSize, c)
         ELSE LET size == cartesianProductSize * Len(options[a]) IN
              IF exceeds(c.cartesianProductLimit, size)
              THEN [rejected |-> TRUE, unionIndex |-> unionIndex]
              ELSE scanArguments(arguments, i + 1,
                                 IF unionIndex = 0 THEN i ELSE unionIndex, size, c)

\* results.push_back at the wrong end
collect_front(results, result) == <<result>> \o results

\* results.push_back(*result.result)
collect(results, result) == Append(results, result)

\* a guard that looks at the left operand only
selfReference_left(instance, lhsTy, rhsTy) == lhsTy = instance

\* the self-reference guard: an operand is the instance being reduced
selfReference(instance, lhsTy, rhsTy) == lhsTy = instance \/ rhsTy = instance

RECURSIVE numericBinopTypeFunction(_, _, _, _)
RECURSIVE distribute(_, _, _, _, _, _, _)
RECURSIVE tryDistributeTypeFunctionApp(_, _, _, _)
RECURSIVE nextOption(_, _, _, _, _, _, _, _)

\* the body of the second loop after f returned r for the arguments args:
\* the status, the blocked types and the trace are carried over, and the loop
\* breaks or collects the result and goes on with the options that are left
nextOption(instance, args, unionIndex, todo, c, metamethod, acc, r) ==
    LET status == IF r.reductionStatus # "MaybeOk" THEN r.reductionStatus
                  ELSE acc.reductionStatus
        acc1 == [acc EXCEPT !.reductionStatus = status,
                            !.blockedTypes = @ \o r.blockedTypes,
                            !.trace = @ \o <<[op |-> "f", typeParams |-> args,
                                              result |-> r.result,
                                              reductionStatus |-> r.reductionStatus,
                                              blockedTypes |-> r.blockedTypes]>>
                                        \o r.trace]
    IN IF status # "MaybeOk" \/ r.result = nullopt THEN acc1
       ELSE distribute(instance, args, unionIndex, todo, c, metamethod,
                       [acc1 EXCEPT !.results = collect(@, r.result)])

\* the second loop of tryDistributeTypeFunctionApp over the options that are
\* left; acc carries reductionStatus, blockedTypes, results and the trace
distribute(instance, arguments, unionIndex, todo, c, metamethod, acc) ==
    IF todo = <<>> THEN acc
    ELSE LET args == [arguments EXCEPT ![unionIndex] = Head(todo)]
         IN nextOption(instance, args, unionIndex, Tail(todo), c, metamethod, acc,
                       numericBinopTypeFunction(instance, args, c, metamethod))

\* what tryDistributeTypeFunctionApp returns after its second loop ended
\* with acc; distributed is FALSE when it returns std::nullopt
endOfDistribution(acc) ==
    LET no(trace) == [distributed |-> FALSE, trace |-> trace]
        yes(r) == [distributed |-> TRUE] @@ r
    IN IF acc.reductionStatus # "MaybeOk" \/ acc.blockedTypes # <<>>
       THEN yes(Returns(nullopt, acc.reductionStatus, acc.blockedTypes, acc.trace))
       ELSE IF acc.results = <<>> THEN no(acc.trace)
       ELSE IF Len(acc.results) = 1
       THEN yes(Returns(acc.results[1], "MaybeOk", <<>>, acc.trace))
       ELSE yes(Returns(unionFunc(acc.results), "MaybeOk", <<>>, acc.trace))

\* tryDistributeTypeFunctionApp(numericBinopTypeFunction, instance,
\* typeParams, packParams, ctx, metamethod); distributed is FALSE when it
\* returns std::nullopt
tryDistributeTypeFunctionApp(instance, typeParams, c, metamethod) ==
    LET scan == scanArguments(typeParams, 1, 0, 1, c) IN
    IF scan.rejected
    THEN [distributed |-> TRUE] @@ Returns(nullopt, "Erroneous", <<>>, <<>>)
    ELSE IF scan.unionIndex = 0 THEN [distributed |-> FALSE, trace |-> <<>>]
    ELSE LET firstUnion == follow(typeParams[scan.unionIndex])
         IN endOfDistribution(
                distribute(instance, typeParams, scan.unionIndex, options[firstUnion],
                           c, metamethod,
                           [reductionStatus |-> "MaybeOk", blockedTypes |-> <<>>,
                            results |-> <<>>, trace |-> <<>>]))

\* an operator without the fast path
bothNumbers_never(normLhsTy, normRhsTy) == FALSE

\* both operands are exactly number
bothNumbers(normLhsTy, normRhsTy) ==
    normLhsTy.isExactlyNumber /\ normRhsTy.isExactlyNumber

\* a call that never swaps
argPack_unswapped(lhsTy, rhsTy, reversed) == <<lhsTy, rhsTy>>

\* the argument pack of the metamethod call: std::swap when reversed
argPack(lhsTy, rhsTy, reversed) ==
    IF reversed THEN <<rhsTy, lhsTy>> ELSE <<lhsTy, rhsTy>>

\* numericBinopTypeFunction from the metamethod lookup on
metamethodCall(lhsTy, rhsTy, c, metamethod) ==
    LET left == findMetatableEntry(c, lhsTy, metamethod)
        reversed == left = nullopt
        right == findMetatableEntry(c, rhsTy, metamethod)
        mm == IF reversed THEN right ELSE left
        lookups == <<[op |-> "findMetatableEntry", ty |-> lhsTy]>>
                      \o (IF reversed THEN <<[op |-> "findMetatableEntry", ty |-> rhsTy]>>
                          ELSE <<>>)
    IN IF mm = nullopt THEN Returns(nullopt, "Erroneous", <<>>, lookups)
       ELSE LET mmType == follow(mm.ty) IN
            IF isPending(mmType, c) THEN Returns(nullopt, "MaybeOk", <<mmType>>, lookups)
            ELSE LET pack == argPack(lhsTy, rhsTy, reversed)
                     solveResult == solveFunctionCall(c, mmType, pack)
                     trace == lookups \o <<[op |-> "solveFunctionCall", fn |-> mmType,
                                            argPack |-> pack, reversed |-> reversed]>>
                 IN IF solveResult = nullopt
                    THEN Returns(nullopt, "Erroneous", <<>>, trace)
                    ELSE LET head == extendTypePack(solveResult.typePackId) IN
                         IF head = <<>> THEN Returns(nullopt, "Erroneous", <<>>, trace)
                         ELSE Returns(Ty(head[1]), "MaybeOk", <<>>, trace)

\* numericBinopTypeFunction after union distribution answered d: its answer
\* when it distributed, the metamethod call when it did not
afterDistribution(typeParams, lhsTy, rhsTy, c, metamethod, d) ==
    LET tried == <<[op |-> "tryDistributeTypeFunctionApp",
                    typeParams |-> typeParams, distributed |-> d.distributed]>>
    IN IF d.distributed
       THEN Returns(d.result, d.reductionStatus, d.blockedTypes, tried \o d.trace)
       ELSE LET m == metamethodCall(lhsTy, rhsTy, c, metamethod) IN
            [m EXCEPT !.trace = tried \o d.trace \o @]

numericBinopTypeFunction(instance, typeParams, c, metamethod) ==
    LET lhsTy == follow(typeParams[1])
        rhsTy == follow(typeParams[2])
        normLhsTy == normalize(c, lhsTy)
        normRhsTy == normalize(c, rhsTy)
    IN IF selfReference(instance, lhsTy, rhsTy)
       THEN Returns(Ty("never"), "MaybeOk", <<>>, <<>>)
       ELSE IF is(lhsTy, "NeverType") \/ is(rhsTy, "NeverType")
       THEN Returns(Ty("never"), "MaybeOk", <<>>, <<>>)
       ELSE IF isPending(lhsTy, c) THEN Returns(nullopt, "MaybeOk", <<lhsTy>>, <<>>)
       ELSE IF isPending(rhsTy, c) THEN Returns(nullopt, "MaybeOk", <<rhsTy>>, <<>>)
       ELSE IF normLhsTy = nullptr \/ normRhsTy = nullptr
       THEN Returns(nullopt, "MaybeOk", <<>>, <<>>)
       ELSE IF normLhsTy.shouldSuppressErrors \/ normRhsTy.shouldSuppressErrors
       THEN Returns(Ty("any"), "MaybeOk", <<>>, <<>>)
       ELSE IF bothNumbers(normLhsTy, normRhsTy)
       THEN Returns(Ty("number"), "MaybeOk", <<>>, <<>>)
       ELSE afterDistribution(typeParams, lhsTy, rhsTy, c, metamethod,
                              tryDistributeTypeFunctionApp(instance, typeParams, c,
                                                           metamethod))

\* the result as the scheduler receives it; a union instance that the
\* reducer allocated is the fresh instance of the arena
reductionOf(r) ==
    [result |-> IF r.result = nullopt THEN NULL
                ELSE IF "ty" \in DOMAIN r.result THEN r.result.ty
                ELSE FreshInstance,
     reductionStatus |-> r.reductionStatus, blockedTypes |-> Range(r.blockedTypes),
     blockedPacks |-> {}, error |-> NULL, messages |-> <<>>]

(***************************************************************************)
(* Builtin type functions: the other operators                             *)
(***************************************************************************)

\* the unary operators, the comparisons and the logical operators
Unary == {"not", "len", "unm"}

Comparisons == {"lt", "le"}

Logical == {"and", "or"}

\* the builtin functions that are operators
Operators == Unary \cup Arithmetic \cup {"concat"} \cup Logical \cup Comparisons \cup {"eq"}

\* the types in leaves(ty) that are inhabited
inhabitants(ty) == leaves(ty) \ {"never"}

\* normalizer->isInhabited(norm) of a type that was normalized
isInhabited(ty) == inhabitants(ty) # {}

\* norm->isSubtypeOfString()
isSubtypeOfString(ty) == inhabitants(ty) = {"string"}

\* typeFromNormal(norm) is a table without a metatable, or the top table
isTable(c, ty) ==
    \E t \in TableNodes : inhabitants(ty) = {t} /\ c.metatable[t] = nullopt

\* typeFromNormal(norm) is a table with a metatable
isMetatable(c, ty) ==
    \E t \in TableNodes : inhabitants(ty) = {t} /\ c.metatable[t] # nullopt

\* ctx->normalizer->normalize(ty) as a call in the trace
normalized(ty) == [op |-> "normalize", ty |-> ty]

\* is<BlockedType, PendingExpansionType, TypeFunctionInstanceType>(ty)
isUnreduced(ty) == is(ty, "BlockedType") \/ is(ty, "TypeFunctionInstanceType")

\* the end of a metamethod call: the metamethod's type is followed and
\* tested for pending, instantiated and unified with the argument pack;
\* answer is what the operator returns when the call is accepted
callMetamethod(mm, pack, c, answer, trace) ==
    LET mmType == follow(mm.ty) IN
    IF isPending(mmType, c) THEN Returns(nullopt, "MaybeOk", <<mmType>>, trace)
    ELSE IF ~is(mmType, "FunctionType") THEN Returns(nullopt, "Erroneous", <<>>, trace)
    ELSE IF pack # c.accepts
    THEN Returns(nullopt, "Erroneous", <<>>,
                 Append(trace, [op |-> "unify", fn |-> mmType, argPack |-> pack]))
    ELSE [answer EXCEPT !.trace = Append(trace, [op |-> "unify", fn |-> mmType,
                                                  argPack |-> pack])]

\* the metamethod of the left operand, or else of the right operand
eitherEntry(c, lhsTy, rhsTy, metamethod) ==
    IF findMetatableEntry(c, lhsTy, metamethod) # nullopt
    THEN findMetatableEntry(c, lhsTy, metamethod)
    ELSE findMetatableEntry(c, rhsTy, metamethod)

\* simplifyIntersection and simplifyUnion: the type they build
simplifyIntersection(left, right) == [simplified |-> "intersection", of |-> <<left, right>>]

simplifyUnion(left, right) == [simplified |-> "union", of |-> <<left, right>>]

\* the self-reference guard of the unary operators, of the arithmetic
\* operators, of concat and of the comparisons
guarded(instance, operands) == instance \in Range(operands)

RECURSIVE operator(_, _, _, _)
RECURSIVE distributeOperator(_, _, _, _, _, _, _)
RECURSIVE tryDistributeOperator(_, _, _, _)
RECURSIVE notTypeFunction(_, _, _)
RECURSIVE lenTypeFunction(_, _, _)
RECURSIVE unmTypeFunction(_, _, _)
RECURSIVE concatTypeFunction(_, _, _)
RECURSIVE comparisonTypeFunction(_, _, _, _)

\* the second loop of tryDistributeTypeFunctionApp for the operator name
distributeOperator(name, instance, arguments, unionIndex, todo, c, acc) ==
    IF todo = <<>> THEN acc
    ELSE LET args == [arguments EXCEPT ![unionIndex] = Head(todo)]
             r == operator(name, instance, args, c)
             status == IF r.reductionStatus # "MaybeOk" THEN r.reductionStatus
                       ELSE acc.reductionStatus
             acc1 == [acc EXCEPT !.reductionStatus = status,
                                 !.blockedTypes = @ \o r.blockedTypes,
                                 !.trace = @ \o <<[op |-> "f", typeParams |-> args,
                                                   result |-> r.result,
                                                   reductionStatus |-> r.reductionStatus,
                                                   blockedTypes |-> r.blockedTypes]>>
                                             \o r.trace]
         IN IF status # "MaybeOk" \/ r.result = nullopt THEN acc1
            ELSE distributeOperator(name, instance, args, unionIndex, Tail(todo), c,
                                    [acc1 EXCEPT !.results = collect(@, r.result)])

\* tryDistributeTypeFunctionApp(f, instance, typeParams, packParams, ctx) for
\* the operator name
tryDistributeOperator(name, instance, typeParams, c) ==
    LET scan == scanArguments(typeParams, 1, 0, 1, c)
        no(trace) == [distributed |-> FALSE, trace |-> trace]
        yes(r) == [distributed |-> TRUE] @@ r
    IN IF scan.rejected THEN yes(Returns(nullopt, "Erroneous", <<>>, <<>>))
       ELSE IF scan.unionIndex = 0 THEN no(<<>>)
       ELSE LET acc == distributeOperator(name, instance, typeParams, scan.unionIndex,
                                          options[follow(typeParams[scan.unionIndex])], c,
                                          [reductionStatus |-> "MaybeOk",
                                           blockedTypes |-> <<>>, results |-> <<>>,
                                           trace |-> <<>>])
            IN IF acc.reductionStatus # "MaybeOk" \/ acc.blockedTypes # <<>>
               THEN yes(Returns(nullopt, acc.reductionStatus, acc.blockedTypes, acc.trace))
               ELSE IF acc.results = <<>> THEN no(acc.trace)
               ELSE IF Len(acc.results) = 1
               THEN yes(Returns(acc.results[1], "MaybeOk", <<>>, acc.trace))
               ELSE yes(Returns(unionFunc(acc.results), "MaybeOk", <<>>, acc.trace))

notTypeFunction(instance, typeParams, c) ==
    LET ty == follow(typeParams[1]) IN
    IF guarded(instance, <<ty>>) THEN Returns(Ty("never"), "MaybeOk", <<>>, <<>>)
    ELSE IF isPending(ty, c) THEN Returns(nullopt, "MaybeOk", <<ty>>, <<>>)
    ELSE LET d == tryDistributeOperator("not", instance, typeParams, c) IN
         IF d.distributed
         THEN Returns(d.result, d.reductionStatus, d.blockedTypes, d.trace)
         ELSE Returns(Ty("boolean"), "MaybeOk", <<>>, d.trace)

lenTypeFunction(instance, typeParams, c) ==
    LET operandTy == follow(typeParams[1])
        normTy == normalize(c, operandTy)
        trace == <<normalized(operandTy)>>
    IN IF guarded(instance, <<operandTy>>) THEN Returns(Ty("never"), "MaybeOk", <<>>, <<>>)
       ELSE IF isPending(operandTy, c) THEN Returns(nullopt, "MaybeOk", <<operandTy>>, <<>>)
       ELSE IF normTy = nullptr THEN Returns(nullopt, "MaybeOk", <<>>, trace)
       ELSE IF normTy.shouldSuppressErrors THEN Returns(Ty("number"), "MaybeOk", <<>>, trace)
       ELSE IF ~isInhabited(operandTy) \/ isSubtypeOfString(operandTy)
       THEN Returns(Ty("number"), "MaybeOk", <<>>, trace)
       ELSE IF isTable(c, operandTy) THEN Returns(Ty("number"), "MaybeOk", <<>>, trace)
       ELSE LET d == tryDistributeOperator("len", instance, typeParams, c)
                mm == findMetatableEntry(c, operandTy, "__len")
                lookup == trace \o d.trace
                             \o <<[op |-> "findMetatableEntry", ty |-> operandTy]>>
            IN IF d.distributed
               THEN Returns(d.result, d.reductionStatus, d.blockedTypes, trace \o d.trace)
               ELSE IF mm = nullopt
               THEN (IF isMetatable(c, operandTy)
                     THEN Returns(Ty("number"), "MaybeOk", <<>>, lookup)
                     ELSE Returns(nullopt, "Erroneous", <<>>, lookup))
               ELSE callMetamethod(mm, <<operandTy>>, c,
                                   Returns(Ty("number"), "MaybeOk", <<>>, <<>>), lookup)

unmTypeFunction(instance, typeParams, c) ==
    LET operandTy == follow(typeParams[1])
        normTy == normalize(c, operandTy)
        trace == <<normalized(operandTy)>>
    IN IF guarded(instance, <<operandTy>>) THEN Returns(Ty("never"), "MaybeOk", <<>>, <<>>)
       ELSE IF isPending(operandTy, c) THEN Returns(nullopt, "MaybeOk", <<operandTy>>, <<>>)
       ELSE IF normTy = nullptr THEN Returns(nullopt, "MaybeOk", <<>>, trace)
       ELSE IF normTy.shouldSuppressErrors THEN Returns(Ty(operandTy), "MaybeOk", <<>>, trace)
       ELSE IF is(operandTy, "NeverType") THEN Returns(Ty("never"), "MaybeOk", <<>>, trace)
       ELSE IF normTy.isExactlyNumber THEN Returns(Ty("number"), "MaybeOk", <<>>, trace)
       ELSE LET d == tryDistributeOperator("unm", instance, typeParams, c)
                mm == findMetatableEntry(c, operandTy, "__unm")
                lookup == trace \o d.trace
                             \o <<[op |-> "findMetatableEntry", ty |-> operandTy]>>
                ret == extendTypePack(c.returns)
            IN IF d.distributed
               THEN Returns(d.result, d.reductionStatus, d.blockedTypes, trace \o d.trace)
               ELSE IF mm = nullopt THEN Returns(nullopt, "Erroneous", <<>>, lookup)
               ELSE callMetamethod(mm, <<operandTy>>, c,
                                   IF ret = <<>> THEN Returns(nullopt, "Erroneous", <<>>, <<>>)
                                   ELSE Returns(Ty(ret[1]), "MaybeOk", <<>>, <<>>),
                                   lookup)

concatTypeFunction(instance, typeParams, c) ==
    LET lhsTy == follow(typeParams[1])
        rhsTy == follow(typeParams[2])
        normLhsTy == normalize(c, lhsTy)
        normRhsTy == normalize(c, rhsTy)
        trace == <<normalized(lhsTy), normalized(rhsTy)>>
        stringy(ty, norm) == isSubtypeOfString(ty) \/ norm.isExactlyNumber
    IN IF guarded(instance, <<lhsTy, rhsTy>>) THEN Returns(Ty("never"), "MaybeOk", <<>>, <<>>)
       ELSE IF isPending(lhsTy, c) THEN Returns(nullopt, "MaybeOk", <<lhsTy>>, <<>>)
       ELSE IF isPending(rhsTy, c) THEN Returns(nullopt, "MaybeOk", <<rhsTy>>, <<>>)
       ELSE IF normLhsTy = nullptr \/ normRhsTy = nullptr
       THEN Returns(nullopt, "MaybeOk", <<>>, trace)
       ELSE IF normLhsTy.shouldSuppressErrors \/ normRhsTy.shouldSuppressErrors
       THEN Returns(Ty("any"), "MaybeOk", <<>>, trace)
       ELSE IF is(lhsTy, "NeverType") \/ is(rhsTy, "NeverType")
       THEN Returns(Ty("never"), "MaybeOk", <<>>, trace)
       ELSE IF stringy(lhsTy, normLhsTy) /\ stringy(rhsTy, normRhsTy)
       THEN Returns(Ty("string"), "MaybeOk", <<>>, trace)
       ELSE LET d == tryDistributeOperator("concat", instance, typeParams, c)
                left == findMetatableEntry(c, lhsTy, "__concat")
                reversed == left = nullopt
                mm == eitherEntry(c, lhsTy, rhsTy, "__concat")
                lookup == trace \o d.trace
                             \o <<[op |-> "findMetatableEntry", ty |-> lhsTy]>>
            IN IF d.distributed
               THEN Returns(d.result, d.reductionStatus, d.blockedTypes, trace \o d.trace)
               ELSE IF mm = nullopt THEN Returns(nullopt, "Erroneous", <<>>, lookup)
               ELSE callMetamethod(mm, argPack(lhsTy, rhsTy, reversed), c,
                                   Returns(Ty("string"), "MaybeOk", <<>>, <<>>), lookup)

\* andTypeFunction and orTypeFunction with the pending tests ahead of the
\* fixpoint tests
logicalTypeFunction_pendingFirst(name, instance, typeParams, c) ==
    LET lhsTy == follow(typeParams[1])
        rhsTy == follow(typeParams[2])
        filter == IF name = "and" THEN "falsy" ELSE "truthy"
        pending(ty) == IF name = "and" THEN isPending(ty, c) ELSE isUnreduced(ty)
    IN IF pending(lhsTy) THEN Returns(nullopt, "MaybeOk", <<lhsTy>>, <<>>)
       ELSE IF pending(rhsTy) THEN Returns(nullopt, "MaybeOk", <<rhsTy>>, <<>>)
       ELSE IF follow(rhsTy) = instance /\ lhsTy # rhsTy
       THEN Returns(Ty(lhsTy), "MaybeOk", <<>>, <<>>)
       ELSE IF follow(lhsTy) = instance /\ lhsTy # rhsTy
       THEN Returns(Ty(rhsTy), "MaybeOk", <<>>, <<>>)
       ELSE Returns(simplifyUnion(rhsTy, simplifyIntersection(lhsTy, filter)), "MaybeOk",
                    <<>>, <<[op |-> "simplifyIntersection", ty |-> lhsTy],
                            [op |-> "simplifyUnion", ty |-> rhsTy]>>)

\* andTypeFunction and orTypeFunction: filter is the falsy type for and, the
\* truthy type for or
logicalTypeFunction(name, instance, typeParams, c) ==
    LET lhsTy == follow(typeParams[1])
        rhsTy == follow(typeParams[2])
        filter == IF name = "and" THEN "falsy" ELSE "truthy"
        pending(ty) == IF name = "and" THEN isPending(ty, c) ELSE isUnreduced(ty)
    IN IF follow(rhsTy) = instance /\ lhsTy # rhsTy
       THEN Returns(Ty(lhsTy), "MaybeOk", <<>>, <<>>)
       ELSE IF follow(lhsTy) = instance /\ lhsTy # rhsTy
       THEN Returns(Ty(rhsTy), "MaybeOk", <<>>, <<>>)
       ELSE IF pending(lhsTy) THEN Returns(nullopt, "MaybeOk", <<lhsTy>>, <<>>)
       ELSE IF pending(rhsTy) THEN Returns(nullopt, "MaybeOk", <<rhsTy>>, <<>>)
       ELSE Returns(simplifyUnion(rhsTy, simplifyIntersection(lhsTy, filter)), "MaybeOk",
                    <<>>, <<[op |-> "simplifyIntersection", ty |-> lhsTy],
                            [op |-> "simplifyUnion", ty |-> rhsTy]>>)

\* comparisonTypeFunction; the graphs hold no free type, so no operand is
\* bound to number on the way
comparisonTypeFunction(instance, typeParams, c, metamethod) ==
    LET lhsTy == follow(typeParams[1])
        rhsTy == follow(typeParams[2])
        normLhsTy == normalize(c, lhsTy)
        normRhsTy == normalize(c, rhsTy)
        trace == <<normalized(lhsTy), normalized(rhsTy)>>
        boolean == Returns(Ty("boolean"), "MaybeOk", <<>>, trace)
    IN IF guarded(instance, <<lhsTy, rhsTy>>) THEN Returns(Ty("never"), "MaybeOk", <<>>, <<>>)
       ELSE IF isUnreduced(lhsTy) THEN Returns(nullopt, "MaybeOk", <<lhsTy>>, <<>>)
       ELSE IF isUnreduced(rhsTy) THEN Returns(nullopt, "MaybeOk", <<rhsTy>>, <<>>)
       ELSE IF normLhsTy = nullptr \/ normRhsTy = nullptr
       THEN Returns(nullopt, "MaybeOk", <<>>, trace)
       ELSE IF normLhsTy.shouldSuppressErrors \/ normRhsTy.shouldSuppressErrors THEN boolean
       ELSE IF ~isInhabited(lhsTy) \/ ~isInhabited(rhsTy) THEN boolean
       ELSE IF isSubtypeOfString(lhsTy) /\ isSubtypeOfString(rhsTy) THEN boolean
       ELSE IF normLhsTy.isExactlyNumber /\ normRhsTy.isExactlyNumber THEN boolean
       ELSE LET d == tryDistributeOperator(IF metamethod = "__lt" THEN "lt" ELSE "le",
                                           instance, typeParams, c)
                mm == eitherEntry(c, lhsTy, rhsTy, metamethod)
                lookup == trace \o d.trace
                             \o <<[op |-> "findMetatableEntry", ty |-> lhsTy]>>
            IN IF d.distributed
               THEN Returns(d.result, d.reductionStatus, d.blockedTypes, trace \o d.trace)
               ELSE IF mm = nullopt THEN Returns(nullopt, "Erroneous", <<>>, lookup)
               ELSE callMetamethod(mm, <<lhsTy, rhsTy>>, c,
                                   Returns(Ty("boolean"), "MaybeOk", <<>>, <<>>), lookup)

\* norm->isSubtypeOfBooleans()
isSubtypeOfBooleans(ty) == inhabitants(ty) = {"boolean"}

\* normalizer->isIntersectionInhabited(lhsTy, rhsTy)
isIntersectionInhabited(lhsTy, rhsTy) == inhabitants(lhsTy) \cap inhabitants(rhsTy) # {}

eqTypeFunction(instance, typeParams, c) ==
    LET lhsTy == follow(typeParams[1])
        rhsTy == follow(typeParams[2])
        normLhsTy == normalize(c, lhsTy)
        normRhsTy == normalize(c, rhsTy)
        trace == <<normalized(lhsTy), normalized(rhsTy)>>
        boolean == Returns(Ty("boolean"), "MaybeOk", <<>>, trace)
        mm == eitherEntry(c, lhsTy, rhsTy, "__eq")
        lookup == Append(trace, [op |-> "findMetatableEntry", ty |-> lhsTy])
    IN IF isPending(lhsTy, c) THEN Returns(nullopt, "MaybeOk", <<lhsTy>>, <<>>)
       ELSE IF isPending(rhsTy, c) THEN Returns(nullopt, "MaybeOk", <<rhsTy>>, <<>>)
       ELSE IF normLhsTy = nullptr \/ normRhsTy = nullptr
       THEN Returns(nullopt, "MaybeOk", <<>>, trace)
       ELSE IF normLhsTy.shouldSuppressErrors \/ normRhsTy.shouldSuppressErrors THEN boolean
       ELSE IF ~isInhabited(lhsTy) \/ ~isInhabited(rhsTy) THEN boolean
       ELSE IF mm = nullopt
       THEN (IF isIntersectionInhabited(lhsTy, rhsTy)
             THEN Returns(Ty("boolean"), "MaybeOk", <<>>, lookup)
             ELSE IF isSubtypeOfString(lhsTy) /\ isSubtypeOfString(rhsTy)
             THEN Returns(Ty("false"), "MaybeOk", <<>>, lookup)
             ELSE IF isSubtypeOfBooleans(lhsTy) /\ isSubtypeOfBooleans(rhsTy)
             THEN Returns(Ty("false"), "MaybeOk", <<>>, lookup)
             ELSE Returns(nullopt, "Erroneous", <<>>, lookup))
       ELSE callMetamethod(mm, <<lhsTy, rhsTy>>, c,
                           Returns(Ty("boolean"), "MaybeOk", <<>>, <<>>), lookup)

\* tfit->function->reducer(instance, typeParams, {}, ctx) of an operator
operator(name, instance, typeParams, c) ==
    CASE name = "not" -> notTypeFunction(instance, typeParams, c)
      [] name = "len" -> lenTypeFunction(instance, typeParams, c)
      [] name = "unm" -> unmTypeFunction(instance, typeParams, c)
      [] name \in Arithmetic ->
            numericBinopTypeFunction(instance, typeParams, c, metamethodOf(name))
      [] name = "concat" -> concatTypeFunction(instance, typeParams, c)
      [] name \in Logical -> logicalTypeFunction(name, instance, typeParams, c)
      [] name = "lt" -> comparisonTypeFunction(instance, typeParams, c, "__lt")
      [] name = "le" -> comparisonTypeFunction(instance, typeParams, c, "__le")
      [] name = "eq" -> eqTypeFunction(instance, typeParams, c)

(***************************************************************************)
(* Builtin type functions: refine                                          *)
(***************************************************************************)

\* a union or an intersection that a reducer allocated, over types
newType(kind, types) == [kind |-> kind, types |-> types]

RECURSIVE iterate(_, _)
\* for (auto option : ut): the options of a union or the parts of an
\* intersection as its iterator yields them, unfollowed, a nested type of the
\* same kind replaced by what it holds
iterate(todo, kind) ==
    IF todo = <<>> THEN <<>>
    ELSE IF is(follow(Head(todo)), kind)
    THEN iterate(children(follow(Head(todo))) \o Tail(todo), kind)
    ELSE <<Head(todo)>> \o iterate(Tail(todo), kind)

RECURSIVE unique(_)
\* TypeIds: a sequence without its repetitions, in insertion order
unique(types) ==
    IF types = <<>> THEN <<>>
    ELSE LET front == unique(SubSeq(types, 1, Len(types) - 1)) IN
         IF types[Len(types)] \in Range(front) THEN front
         ELSE Append(front, types[Len(types)])

RECURSIVE once(_, _)
\* TypeOnceVisitor::traverse from the nodes of todo: the nodes visited;
\* a blocked type is not walked into
once(todo, seen) ==
    IF todo = <<>> THEN seen
    ELSE IF Head(todo) \in seen THEN once(Tail(todo), seen)
    ELSE once(children(Head(todo)) \o Tail(todo), seen \cup {Head(todo)})

RECURSIVE nodesOf(_)
\* the nodes of the arena that a type a reducer holds is built from
nodesOf(t) ==
    IF "ty" \in DOMAIN t THEN (IF t.ty \in Nodes THEN <<t.ty>> ELSE <<>>)
    ELSE IF t.types = <<>> THEN <<>>
    ELSE nodesOf(Head(t.types)) \o nodesOf([t EXCEPT !.types = Tail(@)])

\* a set as a sequence, in the order of its container
inOrder(S, order) == SelectSeq(order, LAMBDA n : n \in S)

\* FindRefinementBlockers: the blocked types found in a type
FindRefinementBlockers(t) ==
    LET walked == once(nodesOf(t), {})
    IN inOrder({n \in walked : is(n, "BlockedType")}, <<"blocked">>)

\* RefineTypeScrubber::isDirty(TypeId)
isDirty(ty, needle) ==
    \/ is(ty, "UnionType") /\ needle \in Range(iterate(children(ty), "UnionType"))
    \/ is(ty, "IntersectionType")
          /\ needle \in Range(iterate(children(ty), "IntersectionType"))

\* a scrubber that leaves the needle in
clean_kept(ty, needle) == Ty(ty)

\* RefineTypeScrubber::clean(TypeId)
clean(ty, needle) ==
    IF is(ty, "UnionType")
    THEN LET newOptions ==
                 unique(SelectSeq(iterate(children(ty), "UnionType"),
                                  LAMBDA option : option # needle /\ ~is(option, "NeverType")))
         IN IF newOptions = <<>> THEN Ty("never")
            ELSE IF Len(newOptions) = 1 THEN Ty(newOptions[1])
            ELSE newType("UnionType", [i \in DOMAIN newOptions |-> Ty(newOptions[i])])
    ELSE IF is(ty, "IntersectionType")
    THEN LET newParts ==
                 unique(SelectSeq(iterate(children(ty), "IntersectionType"),
                                  LAMBDA part : part # needle /\ ~is(part, "UnknownType")))
         IN IF newParts = <<>> THEN Ty("unknown")
            ELSE IF Len(newParts) = 1 THEN Ty(newParts[1])
            ELSE newType("IntersectionType", [i \in DOMAIN newParts |-> Ty(newParts[i])])
    ELSE Ty(ty)

\* RefineTypeScrubber::ignoreChildren(TypeId)
ignoreChildren(ty) == ~(is(ty, "UnionType") \/ is(ty, "IntersectionType"))

RECURSIVE substitute(_, _)
\* Substitution::substitute(ty) with the scrubber: a dirty type is replaced
\* by what clean makes of it, a type with a replaced child by a copy over
\* its new children; children are looked at below unions and intersections
\* only
substitute(ty, needle) ==
    LET t == follow(ty) IN
    IF ignoreChildren(t) THEN Ty(t)
    ELSE IF isDirty(t, needle)
    THEN LET cleaned == clean(t, needle) IN
         IF "ty" \in DOMAIN cleaned
         THEN (IF cleaned.ty \in Nodes /\ cleaned.ty # t
               THEN substitute(cleaned.ty, needle) ELSE cleaned)
         ELSE [cleaned EXCEPT !.types =
                  [i \in DOMAIN cleaned.types |-> substitute(cleaned.types[i].ty, needle)]]
    ELSE LET kids == children(t)
             replaced == [i \in DOMAIN kids |-> substitute(kids[i], needle)]
         IN IF \A i \in DOMAIN kids : replaced[i] = Ty(follow(kids[i])) THEN Ty(t)
            ELSE newType(kindOf(t), replaced)

RECURSIVE occurs(_, _)
\* occurs(haystack, needle): both of its loops are over the options of a
\* union; the seen set only spares a second visit
occurs(haystack, needle) ==
    \/ needle = haystack
    \/ /\ is(haystack, "UnionType")
       /\ \E option \in Range(iterate(children(haystack), "UnionType")) :
             occurs(option, needle)

\* is<BlockedType, PendingExpansionType, TypeFunctionInstanceType>(targetTy)
targetIsPending(targetTy) ==
    /\ "ty" \in DOMAIN targetTy
    /\ targetTy.ty \in Nodes
    /\ is(targetTy.ty, "BlockedType") \/ is(targetTy.ty, "TypeFunctionInstanceType")

\* the stepRefine lambda: what refining the target by a discriminant gives, as
\* the oracle c.refine has it: the discriminant holds nothing to refine by,
\* the simplifier is blocked, the normalizer gives up, or the target is
\* intersected with the discriminant
stepRefine(target, discriminant, c) ==
    LET found == FindRefinementBlockers(Ty(discriminant)) IN
    IF found # <<>> THEN [refined |-> nullptr, blocked |-> found]
    ELSE CASE c.refine = "unrefinable" -> [refined |-> target, blocked |-> <<>>]
           [] c.refine = "blocked" -> [refined |-> nullptr, blocked |-> <<"blocked">>]
           [] c.refine = "failed" -> [refined |-> nullptr, blocked |-> <<>>]
           [] c.refine = "refined" ->
                [refined |-> newType("IntersectionType", <<target, Ty(discriminant)>>),
                 blocked |-> <<>>]

RECURSIVE refineLoop(_, _, _, _)
\* refine the target with each discriminant in turn, the last one first
refineLoop(target, discriminantTypes, c, trace) ==
    IF discriminantTypes = <<>> THEN Returns(target, "MaybeOk", <<>>, trace)
    ELSE LET discriminant == discriminantTypes[Len(discriminantTypes)]
             step == stepRefine(target, discriminant, c)
             trace1 == Append(trace, [op |-> "stepRefine", target |-> target,
                                      discriminant |-> discriminant])
         IN IF step.blocked = <<>> /\ step.refined = nullptr
            THEN Returns(nullopt, "MaybeOk", <<>>, trace1)
            ELSE IF step.blocked # <<>>
            THEN Returns(nullopt, "MaybeOk", step.blocked, trace1)
            ELSE refineLoop(step.refined,
                            SubSeq(discriminantTypes, 1, Len(discriminantTypes) - 1),
                            c, trace1)

\* refineTypeFunction(instance, typeParams, packParams, ctx)
refineTypeFunction(instance, typeParams, c) ==
    LET given == follow(typeParams[1])
        scrub == ~c.avoidExcessiveTypeCopying \/ occurs(given, instance)
        targetTy == IF scrub THEN substitute(given, instance) ELSE Ty(given)
        trace == IF scrub THEN <<[op |-> "substitute", ty |-> given, result |-> targetTy]>>
                 ELSE <<>>
        discriminantTypes == [i \in 1..(Len(typeParams) - 1) |-> follow(typeParams[i + 1])]
        pending == {i \in DOMAIN discriminantTypes : isPending(discriminantTypes[i], c)}
        found == FindRefinementBlockers(targetTy)
    IN IF targetIsPending(targetTy) THEN Returns(nullopt, "MaybeOk", <<targetTy.ty>>, trace)
       ELSE IF pending # {}
       THEN Returns(nullopt, "MaybeOk",
                    <<discriminantTypes[CHOOSE i \in pending : \A j \in pending : i <= j]>>,
                    trace)
       ELSE IF found # <<>> THEN Returns(nullopt, "MaybeOk", found, trace)
       ELSE refineLoop(targetTy, discriminantTypes, c, trace)

(***************************************************************************)
(* User-defined type functions                                             *)
(***************************************************************************)

RECURSIVE visitOrder(_, _)
\* TypeOnceVisitor::traverse with skipBoundTypes from the nodes of todo: the
\* nodes visit is called on, in order
visitOrder(todo, order) ==
    IF todo = <<>> THEN order
    ELSE IF Head(todo) \in Range(order) THEN visitOrder(Tail(todo), order)
    ELSE IF boundTo[Head(todo)] # NULL
    THEN visitOrder(<<boundTo[Head(todo)]>> \o Tail(todo), order)
    ELSE visitOrder(children(Head(todo)) \o Tail(todo), Append(order, Head(todo)))

\* FindUserTypeFunctionBlockers::blockingTypes after traversing the types of
\* todo one after the other
FindUserTypeFunctionBlockers(todo, c) ==
    SelectSeq(visitOrder(todo, <<>>), LAMBDA ty : ty \in TypeNodes /\ isPending(ty, c))

\* a TypeFunctionReductionResult<TypeId> of the user function
Answer(result, reductionStatus, blockedTypes, error, messages) ==
    [result |-> result, reductionStatus |-> reductionStatus,
     blockedTypes |-> blockedTypes, error |-> error, messages |-> messages]

\* the types of the aliases without parameters
aliasTypes(environmentAlias) ==
    LET zero == SelectSeq(environmentAlias, LAMBDA a : a.typeParams = 0)
    IN [i \in DOMAIN zero |-> follow(zero[i].type)]

\* a scan that leaves the aliases out
scanned_arguments(typeParams, c) ==
    FindUserTypeFunctionBlockers([i \in DOMAIN typeParams |-> follow(typeParams[i])], c)

\* the blocker scan: the arguments, then the aliases without parameters
scanned(typeParams, c) ==
    FindUserTypeFunctionBlockers(
        [i \in DOMAIN typeParams |-> follow(typeParams[i])]
            \o aliasTypes(c.environmentAlias), c)

\* an evaluation that erroneous definitions do not stop
failsOpen_never(c) == FALSE

\* evaluation is disabled or the definition has parse errors
failsOpen(c) == ~c.allowEvaluation \/ c.hasErrors

\* the calls that an event sequence of one kind stands for
events(op, items) == [i \in DOMAIN items |-> [op |-> op, of |-> items[i]]]

\* userDefinedTypeFunction up to lua_pcall: entered tells that the body is
\* called, and answer is what is returned otherwise
userDefinedTypeFunction(instance, typeParams, c) ==
    LET returns(answer, trace) == [entered |-> FALSE, answer |-> answer, trace |-> trace]
        blockingTypes == scanned(typeParams, c)
        scan == <<[op |-> "FindUserTypeFunctionBlockers"]>>
        definitions == c.environmentFunction
        erroneous == {i \in DOMAIN definitions : definitions[i].hasErrors}
        first == IF erroneous = {} THEN Len(definitions) + 1
                 ELSE CHOOSE i \in erroneous : \A j \in erroneous : i <= j
        registered == scan \o events("registerFunction", [i \in 1..(first - 1) |-> i])
        thread == registered \o <<[op |-> "lua_newthread"]>>
        aliases == aliasTypes(c.environmentAlias)
        environment ==
            IF definitions = <<>> THEN <<>> ELSE events("serialize", aliases)
        errors == Range(aliases) \cap c.unserializable # {} /\ definitions # <<>>
        arguments == [i \in DOMAIN typeParams |-> follow(typeParams[i])]
        failed == {i \in DOMAIN arguments : errors \/ arguments[i] \in c.unserializable}
        last == IF failed = {} THEN Len(arguments)
                ELSE CHOOSE i \in failed : \A j \in failed : i <= j
        serialized == thread \o environment \o events("serialize", SubSeq(arguments, 1, last))
    IN IF failsOpen(c)
       THEN returns(Answer(Ty("error"), "MaybeOk", <<>>, NULL, <<>>), <<>>)
       ELSE IF blockingTypes # <<>>
       THEN returns(Answer(nullopt, "MaybeOk", blockingTypes, NULL, <<>>), scan)
       ELSE IF erroneous # {}
       THEN returns(Answer(Ty("error"), "MaybeOk", <<>>, NULL, <<>>), registered)
       ELSE IF ~c.global
       THEN returns(Answer(nullopt, "Erroneous", <<>>,
                           "cannot be evaluated in this context", <<>>), registered)
       ELSE IF failed # {}
       THEN returns(Answer(nullopt, "Erroneous", <<>>, "serialize", <<>>), serialized)
       ELSE [entered |-> TRUE, answer |-> nullopt,
             trace |-> Append(serialized, [op |-> "lua_pcall"])]

\* a handler that looks at the cancellation token first
interrupt_tokenFirst(c) ==
    IF c.cancellationRequested THEN "UserCancelError"
    ELSE IF c.finishTimePassed THEN "TimeLimitError"
    ELSE NULL

\* lua_callbacks(L)->interrupt: the exception it throws, if any
interrupt(c) ==
    IF c.finishTimePassed THEN "TimeLimitError"
    ELSE IF c.cancellationRequested THEN "UserCancelError"
    ELSE NULL

\* checkResultForError(L, name, lua_pcall(...)) when the body was left by an
\* exception: lua_pcall catches it and the message names it
checkResultForError(exception) == exception

\* what the body may leave on the stack
BodyResults == {"type", "non-type", "error", "undeserializable"}

\* userDefinedTypeFunction after lua_pcall has returned normally
afterCall(value, messages) ==
    CASE value = "error" -> Answer(nullopt, "Erroneous", <<>>, "runtime error", messages)
      [] value = "non-type" ->
            Answer(nullopt, "Erroneous", <<>>, "returned a non-type value", messages)
      [] value = "undeserializable" ->
            Answer(nullopt, "Erroneous", <<>>, "deserialize", messages)
      [] value = "type" -> Answer(Ty("number"), "MaybeOk", <<>>, NULL, messages)

\* the answer of the user function as the scheduler receives it
reductionOfUser(a) ==
    [result |-> IF a.result = nullopt THEN NULL ELSE a.result.ty,
     reductionStatus |-> a.reductionStatus, blockedTypes |-> Range(a.blockedTypes),
     blockedPacks |-> {}, error |-> a.error, messages |-> a.messages]

(***************************************************************************)
(* Oracles: what a reducer callback and the guesser may answer             *)
(***************************************************************************)

\* nodes a reducer may hand back as the replacement of sub
Replacements(sub) ==
    IF sub \in PackNodes THEN {"pack"}
    ELSE {"number"} \cup (IF sub # FreshInstance /\ boundTo[FreshInstance] = NULL
                          THEN {FreshInstance} ELSE {})

\* the TypeFunctionReductionResult values a reducer may return for sub
ReductionResults(sub) ==
    {[result |-> r, reductionStatus |-> "MaybeOk", blockedTypes |-> {}, blockedPacks |-> {},
      error |-> NULL, messages |-> <<>>] : r \in Replacements(sub)}
    \cup
    {[result |-> NULL, reductionStatus |-> "MaybeOk", blockedTypes |-> bt, blockedPacks |-> bp,
      error |-> NULL, messages |-> <<>>] :
        bt \in {{}, {"blocked"}}, bp \in (IF sub \in PackNodes THEN {{}, {"gpack"}} ELSE {{}})}
    \cup
    {[result |-> NULL, reductionStatus |-> st, blockedTypes |-> {}, blockedPacks |-> {},
      error |-> NULL, messages |-> <<>>] : st \in {"Irreducible", "Erroneous"}}
    \cup
    (IF sub \in TypeNodes /\ function[sub] = "user"
     THEN {[result |-> NULL, reductionStatus |-> "Erroneous", blockedTypes |-> {},
            blockedPacks |-> {}, error |-> "error", messages |-> <<"print">>]}
     ELSE {})

\* what the reducer that is executing may return
ReducerAnswers == IF subject = NULL THEN {} ELSE ReductionResults(subject)

\* answers in which the reducer hands back one of the type arguments of its
\* subject that is still a function instance
ArgumentAnswers ==
    IF subject = NULL \/ subject \notin TypeNodes THEN {}
    ELSE {[result |-> follow(p), reductionStatus |-> "MaybeOk", blockedTypes |-> {},
           blockedPacks |-> {}, error |-> NULL, messages |-> <<>>] :
             p \in {q \in Range(typeArguments[subject]) :
                       isInstance(follow(q)) /\ follow(q) # subject}}

\* answers of guesser.guess(subject)
Guesses == {NULL, "number"}

(***************************************************************************)
(* Entry points and the run loop                                           *)
(***************************************************************************)

NoReturned == [kind |-> "none", entry |-> NULL, result |-> EmptyResult, steps |-> 0,
               irreducible |-> {}, done |-> TRUE, depth |-> 0]

\* history: the subjects whose reducer has been invoked in this run, in order
invoked ==
    [i \in DOMAIN applied |-> applied[i].subject]
        \o (IF subject = NULL THEN <<>> ELSE <<subject>>)

Frame ==
    [reducer |-> reducer, iterationCount |-> iterationCount, subject |-> subject,
     entry |-> entry, enableReduction |-> enableReduction, collected |-> collected,
     atStart |-> atStart, applied |-> applied]

\* TypeReductionRentrancyGuard: the value of the flag while the guard is
\* alive and the value its destructor leaves
TypeReductionRentrancyGuard(alive) == alive

\* an engine that never finds a run active
alreadyReducing_never == FALSE

\* the test reduceFunctionsInternal makes before it builds its guard
alreadyReducing == reentrantTypeReduction

\* values of the visitor's recursion limit: one that the deeper graphs
\* exceed and one that no graph reaches
RecursionLimits == {Shallow, Deep}

\* collector.traverse(entrypoint) throws: more calls of traverse were active
\* at once than the limit allows
RecursionLimitException(c, limit) == c.deepest > limit

\* a handler that turns the exception into a diagnostic
catch_reported == [EmptyResult EXCEPT !.errors = <<Error("CodeTooComplex", NULL)>>]

\* catch (RecursionLimitException&): what reduceTypeFunctions returns
catch == EmptyResult

\* reduceTypeFunctions(entrypoint, location, ctx, force) followed by
\* reduceFunctionsInternal up to its while loop; depth is the number of runs
\* that are suspended inside a reducer when the request is made
reduceTypeFunctions(entrypoint, f, depth, limit) ==
    LET c == InstanceCollector(entrypoint)
        answer(kind) == [kind |-> kind, entry |-> entrypoint, result |-> EmptyResult,
                         steps |-> 0, irreducible |-> {}, done |-> TRUE, depth |-> depth]
    IN IF RecursionLimitException(c, limit)
       THEN /\ returned' = [answer("limit") EXCEPT !.result = catch]
            /\ entry' = IF depth = 0 THEN entrypoint ELSE entry
            /\ UNCHANGED <<reentrantTypeReduction, pc, reducer, iterationCount, subject,
                           stack, enableReduction, collected, atStart, applied>>
       ELSE IF c.tys = <<>> /\ c.tps = <<>>
       THEN /\ returned' = answer("empty")
            /\ entry' = IF depth = 0 THEN entrypoint ELSE entry
            /\ UNCHANGED <<reentrantTypeReduction, pc, reducer, iterationCount, subject,
                           stack, enableReduction, collected, atStart, applied>>
       ELSE IF alreadyReducing
       THEN /\ returned' = answer("reentrant")
            /\ UNCHANGED <<reentrantTypeReduction, pc, reducer, iterationCount, subject,
                           stack, entry, enableReduction, collected, atStart, applied>>
       ELSE /\ reducer' = NewReducer(c, f)
            /\ iterationCount' = 0
            /\ reentrantTypeReduction' = TypeReductionRentrancyGuard(TRUE)
            /\ pc' = "loop"
            /\ subject' = NULL
            /\ enableReduction' = <<>>
            /\ entry' = entrypoint
            /\ collected' = Range(c.tys) \cup Range(c.tps)
            /\ atStart' = state
            /\ applied' = <<>>
            /\ stack' = IF depth = 0 THEN stack ELSE Append(stack, Frame)
            /\ returned' = NoReturned

\* the constraint solver (or any caller outside a run) asks for a reduction
Request(entrypoint, f, limit) ==
    /\ pc = "idle"
    /\ requests > 0
    /\ runs > 0 => entrypoint = entry
    /\ runs' = runs + 1
    /\ requests' = requests - 1
    /\ reduceTypeFunctions(entrypoint, f, 0, limit)
    /\ UNCHANGED <<graphVars, callVars, boundTo, state>>

\* a reducer asks for a reduction while it executes: evaluateTypeAliasCall
\* inside a user-defined function, or an oracle called by a builtin
NestedRequest(entrypoint) ==
    /\ pc = "reducer"
    /\ Len(stack) < MaxDepth
    /\ \E limit \in RecursionLimits :
           reduceTypeFunctions(entrypoint, FALSE, Len(stack) + 1, limit)
    /\ UNCHANGED <<graphVars, callVars, boundTo, state, runs, requests>>

\* a loop that gives up one iteration early
endOfIteration_early(m) ==
    /\ iterationCount' = iterationCount + 1
    /\ boundTo' = m.boundTo
    /\ state' = m.state
    /\ IF iterationCount + 1 >= MaxSteps
       THEN /\ reducer' = [m.reducer EXCEPT !.result.errors =
                                        Append(@, Error("CodeTooComplex", NULL))]
            /\ pc' = "break"
       ELSE /\ reducer' = m.reducer
            /\ pc' = "loop"

\* the end of one iteration of the while loop of reduceFunctionsInternal
endOfIteration(m) ==
    /\ iterationCount' = iterationCount + 1
    /\ boundTo' = m.boundTo
    /\ state' = m.state
    /\ IF iterationCount + 1 > MaxSteps
       THEN /\ reducer' = [m.reducer EXCEPT !.result.errors =
                                        Append(@, Error("CodeTooComplex", NULL))]
            /\ pc' = "break"
       ELSE /\ reducer' = m.reducer
            /\ pc' = "loop"

\* a step that prefers the pack queue
stepsType_packsFirst(r) == r.queuedTps = <<>>

\* the test of TypeFunctionReducer::step: stepType runs, not stepPack
stepsType(r) == r.queuedTys # <<>>

\* reducer.step(): stepType when a type is queued, else stepPack
Step(guess) ==
    /\ pc = "loop"
    /\ ~done(reducer)
    /\ LET isType == stepsType(reducer)
           front == IF isType THEN Head(reducer.queuedTys) ELSE Head(reducer.queuedTps)
           sub == follow(front)
           popped == IF isType THEN [reducer EXCEPT !.queuedTys = Tail(@)]
                     ELSE [reducer EXCEPT !.queuedTps = Tail(@)]
           s == stepSubject(Machine(popped, boundTo, state), sub, guess)
       IN IF s.call
          THEN /\ pc' = "reducer"
               /\ subject' = sub
               /\ reducer' = s.m.reducer
               /\ boundTo' = s.m.boundTo
               /\ state' = s.m.state
               /\ IF sub \in TypeNodes /\ function[sub] = "user"
                  THEN /\ enableReduction' = <<reentrantTypeReduction>>
                       /\ reentrantTypeReduction' = FALSE
                  ELSE UNCHANGED <<enableReduction, reentrantTypeReduction>>
               /\ UNCHANGED iterationCount
          ELSE /\ endOfIteration(s.m)
               /\ UNCHANGED <<subject, enableReduction, reentrantTypeReduction>>
    /\ UNCHANGED <<graphVars, callVars, stack, entry, collected, atStart, applied, returned, runs,
                   requests>>

\* the rest of the step once the reducer callback has returned reduction
reducerReturned(reduction) ==
    /\ pc = "reducer"
    /\ endOfIteration(handleTypeFunctionReduction(Machine(reducer, boundTo, state),
                                                  subject, reduction))
    /\ applied' = Append(applied, [subject |-> subject, reduction |-> reduction,
                                    before |-> getState(state, subject),
                                    force |-> reducer.force])
    /\ subject' = NULL
    /\ IF enableReduction # <<>>
       THEN /\ reentrantTypeReduction' = enableReduction[1]
            /\ enableReduction' = <<>>
       ELSE UNCHANGED <<enableReduction, reentrantTypeReduction>>
    /\ UNCHANGED <<graphVars, stack, entry, collected, atStart, returned, runs, requests>>

\* the reducer callback, an oracle, returns reduction and the step applies it
ReducerReturns(reduction) ==
    /\ reduction \in ReducerAnswers \cup ArgumentAnswers
    /\ reducerReturned(reduction)
    /\ UNCHANGED callVars

\* the subject whose reducer is executing is an arithmetic instance
arithmetic == subject \in TypeNodes /\ function[subject] \in Arithmetic

\* tfit->function->reducer(subject, ...) of an arithmetic instance
BuiltinAnswers ==
    IF pc = "reducer" /\ arithmetic
    THEN {reductionOf(numericBinopTypeFunction(subject, typeArguments[subject], ctx,
                                               metamethodOf(function[subject])))}
    ELSE {}

\* the reducer of an arithmetic instance returns and the step applies it
BuiltinReturns ==
    /\ \E reduction \in BuiltinAnswers : reducerReturned(reduction)
    /\ UNCHANGED callVars

\* the reducer of any other instance, an oracle, returns
OtherReturns(reduction) ==
    /\ ~arithmetic
    /\ ReducerReturns(reduction)

\* reduceFunctionsInternal leaves its loop and returns reducer.result
Return ==
    /\ pc = "break" \/ (pc = "loop" /\ done(reducer))
    /\ reentrantTypeReduction' = TypeReductionRentrancyGuard(FALSE)
    /\ returned' = [kind |-> "run", entry |-> entry, result |-> reducer.result,
                    steps |-> iterationCount, irreducible |-> reducer.irreducible,
                    done |-> done(reducer), depth |-> Len(stack)]
    /\ IF stack = <<>>
       THEN /\ pc' = "idle"
            /\ reducer' = NoReducer
            /\ iterationCount' = 0
            /\ UNCHANGED <<subject, entry, enableReduction, collected, atStart, applied,
                           stack>>
       ELSE LET top == stack[Len(stack)] IN
            /\ pc' = "reducer"
            /\ reducer' = top.reducer
            /\ iterationCount' = top.iterationCount
            /\ subject' = top.subject
            /\ entry' = top.entry
            /\ enableReduction' = top.enableReduction
            /\ collected' = top.collected
            /\ atStart' = top.atStart
            /\ applied' = top.applied
            /\ stack' = SubSeq(stack, 1, Len(stack) - 1)
    /\ UNCHANGED <<graphVars, callVars, boundTo, state, runs, requests>>

(***************************************************************************)
(* Initial graphs and specifications                                       *)
(***************************************************************************)

\* entry points of the requests made from outside a run; a later request
\* repeats the entry point of the first
EntryPoints == {"A", "B", "inter", "number", "pack"}

\* entry points of the requests made from inside a reducer
NestedEntryPoints == {"C", "number"}

\* a freshly built graph: ta and pa are sets of records giving each instance
\* its arguments, fn a set of records giving each type instance its function,
\* fo the sets of nodes another arena may own, gd the guesser depths
InitGraph(ta, pa, fn, fo, gd) ==
    /\ \E t \in ta, p \in pa :
         /\ typeArguments = [n \in TypeInstances \cup PackInstances |-> t[n]]
                               @@ (FreshInstance :> <<"number", "number">>)
         /\ packArguments = [n \in TypeInstances \cup PackInstances |-> p[n]]
                               @@ (FreshInstance :> <<>>)
    /\ parts = <<"C", "number">>
    /\ options = [u \in UnionNodes |-> <<>>]
    /\ \E f \in fn :
         function = [n \in TypeInstances |-> f[n]] @@ (FreshInstance :> "union")
    /\ \E foreign \in fo :
         owningArena = [n \in Nodes |-> IF n \in foreign THEN "foreign" ELSE "arena"]
    /\ guesserDepth \in gd
    /\ boundTo = [n \in Nodes |-> NULL]
    /\ state = [n \in TypeInstances \cup {FreshInstance} |-> "Unsolved"]

\* no run is active; the solver will make n requests
InitControl(n) ==
    /\ reentrantTypeReduction = FALSE
    /\ pc = "idle"
    /\ reducer = NoReducer
    /\ iterationCount = 0
    /\ subject = NULL
    /\ stack = <<>>
    /\ entry = NULL
    /\ enableReduction = <<>>
    /\ collected = {}
    /\ atStart = state
    /\ applied = <<>>
    /\ returned = NoReturned
    /\ runs = 0
    /\ requests = n

\* no builtin function has been applied on its own
NoOperation ==
    [call |-> NULL, function |-> NULL, instance |-> NULL, typeParams |-> <<>>,
     applied |-> FALSE, outcome |-> nullopt]

\* userDefinedTypeFunction is not executing
NoSandbox == [phase |-> "none", answer |-> nullopt, trace |-> <<>>, interrupts |-> 0]

\* no builtin function is applied on its own and the oracles of the context
\* are not consulted
NoBuiltinCall ==
    /\ ctx = DefaultContext
    /\ operation = NoOperation
    /\ sandbox = NoSandbox

Init ==
    /\ InitGraph([A : {<<"B">>, <<"C", "B">>, <<"inter">>},
                  B : {<<"C">>, <<"A">>, <<"C", "B">>},
                  C : {<<"number">>, <<"generic">>, <<"C">>},
                  P : {<<"number">>}],
                 [A : {<<>>}, B : {<<>>, <<"P">>}, C : {<<>>}, P : {<<>>}],
                 [A : {"add", "user"}, B : {"add"}, C : {"or"}],
                 {{}, {"C"}},
                 {-1})
    /\ InitControl(Requests)
    /\ NoBuiltinCall

\* one run requested by the constraint solver
Next ==
    \/ \E e \in EntryPoints, f \in BOOLEAN, l \in RecursionLimits : Request(e, f, l)
    \/ \E g \in Guesses : Step(g)
    \/ \E r \in ReducerAnswers : ReducerReturns(r)
    \/ Return

Spec == Init /\ [][Next]_vars

\* the same entry point reduced again after the first run has returned
RepeatInit ==
    /\ InitGraph([A : {<<"B">>, <<"C", "B">>},
                  B : {<<"C">>, <<"A">>},
                  C : {<<"number">>},
                  P : {<<"number">>}],
                 [A : {<<>>}, B : {<<>>}, C : {<<>>}, P : {<<>>}],
                 [A : {"add"}, B : {"add"}, C : {"or"}],
                 {{}, {"C"}},
                 {-1})
    /\ InitControl(RepeatedRequests)
    /\ NoBuiltinCall

RepeatSpec == RepeatInit /\ [][Next]_vars

\* reducers that request reductions while they execute
ReentrantInit ==
    /\ InitGraph([A : {<<"B">>, <<"C", "B">>},
                  B : {<<"C">>, <<"A">>},
                  C : {<<"number">>},
                  P : {<<"number">>}],
                 [A : {<<>>}, B : {<<>>}, C : {<<>>}, P : {<<>>}],
                 [A : {"add", "user"}, B : {"add"}, C : {"or", "user"}],
                 {{}},
                 {-1})
    /\ InitControl(Requests)
    /\ NoBuiltinCall

ReentrantNext ==
    \/ Next
    \/ \E e \in NestedEntryPoints : NestedRequest(e)

ReentrantSpec == ReentrantInit /\ [][ReentrantNext]_vars

\* reducers that may hand back an argument, over graphs where an instance
\* waits for one that stays unreduced
ShareInit ==
    /\ InitGraph([A : {<<"B">>, <<"C", "B">>},
                  B : {<<"C", "A">>, <<"C">>, <<"C", "B">>},
                  C : {<<"number">>},
                  P : {<<"number">>}],
                 [A : {<<>>}, B : {<<>>, <<"P">>}, C : {<<>>}, P : {<<>>}],
                 [A : {"add"}, B : {"add"}, C : {"or"}],
                 {{}, {"C"}},
                 {-1})
    /\ InitControl(Requests)
    /\ NoBuiltinCall

ShareNext ==
    \/ Next
    \/ \E r \in ArgumentAnswers : ReducerReturns(r)

ShareSpec == ShareInit /\ [][ShareNext]_vars

\* reduceFunctionsInternal is a synchronous loop and a reducer returns: a run
\* that was requested takes its next step, whichever it is
Advance ==
    \/ \E g \in Guesses : Step(g)
    \/ \E r \in ReducerAnswers : ReducerReturns(r)
    \/ Return

\* a chain A<B>, B<C>, C<number> where B may wait for the pack instance P
\* and C may belong to another arena
LiveInit ==
    /\ InitGraph([A : {<<"B">>}, B : {<<"C">>}, C : {<<"number">>}, P : {<<"number">>}],
                 [A : {<<>>}, B : {<<>>, <<"P">>}, C : {<<>>}, P : {<<>>}],
                 [A : {"add"}, B : {"add"}, C : {"or"}],
                 {{}, {"C"}},
                 {-1})
    /\ InitControl(Requests)
    /\ NoBuiltinCall

\* the runs over these graphs when every run goes on until it returns
LiveSpec == LiveInit /\ [][Next]_vars /\ WF_vars(Advance)

\* arithmetic instances that are, or come to be, their own argument
SelfInit ==
    /\ InitGraph([A : {<<"A", "number">>, <<"number", "A">>, <<"A", "A">>,
                       <<"A", "generic">>, <<"blocked", "A">>, <<"B", "A">>,
                       <<"B", "number">>},
                  B : {<<"number", "number">>, <<"C", "A">>, <<"A", "number">>},
                  C : {<<"number">>},
                  P : {<<"number">>}],
                 [A : {<<>>}, B : {<<>>}, C : {<<>>}, P : {<<>>}],
                 [A : {"add", "mul"}, B : {"add", "or"}, C : {"or"}],
                 {{}, {"A"}},
                 {-1})
    /\ InitControl(Requests)
    /\ NoBuiltinCall

SelfNext ==
    \/ \E e \in EntryPoints, f \in BOOLEAN, l \in RecursionLimits : Request(e, f, l)
    \/ \E g \in Guesses : Step(g)
    \/ BuiltinReturns
    \/ \E r \in ReducerAnswers \cup ArgumentAnswers : OtherReturns(r)
    \/ Return

SelfSpec == SelfInit /\ [][SelfNext]_vars

\* values of DFInt::LuauTypeFamilyApplicationCartesianProductLimit
CartesianProductLimits == {4, 6}

\* what the oracles of the context answer in a behaviour: the metatables
\* with the metamethod they hold, the argument pack the metamethod accepts and
\* the pack it returns, the types the normalizer gives up on, and the types
\* the solver still has constraints for
Metatables ==
    {[table1 |-> [name |-> "__add", type |-> "fn"], table2 |-> nullopt],
     [table1 |-> nullopt, table2 |-> [name |-> "__add", type |-> "fn"]],
     [table1 |-> [name |-> "__add", type |-> "blocked"],
      table2 |-> [name |-> "__add", type |-> "fn"]],
     [table1 |-> nullopt, table2 |-> nullopt]}

Contexts ==
    {[DefaultContext EXCEPT !.metatable = m, !.accepts = a, !.returns = r,
                            !.tooComplex = l[1], !.unresolved = l[2],
                            !.cartesianProductLimit = k] :
        m \in Metatables,
        a \in {<<"table2", "number">>, <<"table1", "table2">>},
        r \in {<<>>, <<"table1">>, <<"string", "number">>},
        l \in {<<{}, {}>>, <<{"string"}, {}>>, <<{}, {"string"}>>},
        k \in CartesianProductLimits}

\* the options of the two unions
Unions ==
    {[union1 |-> o1, union2 |-> o2] :
        o1 \in {<<"number", "table1">>, <<"table1", "table2">>, <<"table2">>,
                <<"number", "string", "table1">>, <<"number", "number">>},
        o2 \in {<<"number", "table2">>, <<"table1", "number", "number">>}}

\* the builtin functions applied on their own
Operations == {"numericBinopTypeFunction", "tryDistributeTypeFunctionApp"}

\* operands without a union under every context, and operands with a union
\* under the contexts that accept (table2, number)
Operands ==
    {[typeParams |-> <<lhs, rhs>>, options |-> [union1 |-> <<"number", "table1">>,
                                                union2 |-> <<"number", "table2">>],
      ctx |-> c] :
        lhs \in {"number", "string", "never", "any", "blocked", "table1", "table2",
                 "A", "C"},
        rhs \in {"number", "string", "table1", "table2", "A"},
        c \in {c \in Contexts : c.cartesianProductLimit = 4}}
    \cup
    {[typeParams |-> p, options |-> o, ctx |-> c] :
        p \in {<<"union1", "number">>, <<"union1", "table2">>, <<"union1", "union2">>,
               <<"number", "union2">>, <<"table1", "union2">>, <<"union2", "union1">>},
        o \in Unions,
        c \in {c \in Contexts : /\ c.accepts = <<"table2", "number">>
                                /\ c.returns # <<>>
                                /\ c.unresolved = {}
                                /\ c.metatable.table2 # nullopt}}

\* an arithmetic operator is applied to two operands outside a run: the
\* instance A being reduced, the instance B, C that is bound to number, and
\* two unions
BinopInit ==
    /\ typeArguments = [n \in TypeInstances \cup PackInstances \cup {FreshInstance}
                           |-> <<"number", "number">>]
    /\ packArguments = [n \in TypeInstances \cup PackInstances \cup {FreshInstance}
                           |-> <<>>]
    /\ parts = <<"number", "string">>
    /\ function = [n \in TypeInstances |-> "add"] @@ (FreshInstance :> "union")
    /\ owningArena = [n \in Nodes |-> "arena"]
    /\ guesserDepth = -1
    /\ boundTo = [n \in Nodes |-> IF n = "C" THEN "number" ELSE NULL]
    /\ state = [n \in TypeInstances \cup {FreshInstance} |-> "Unsolved"]
    /\ InitControl(0)
    /\ \E call \in Operations, f \in {"add", "mul"}, o \in Operands :
           /\ options = o.options
           /\ ctx = o.ctx
           /\ operation = [NoOperation EXCEPT !.call = call, !.function = f,
                                               !.instance = "A",
                                               !.typeParams = o.typeParams]
    /\ sandbox = NoSandbox

\* the operator is applied to its operands
Reduce ==
    /\ operation.call = "numericBinopTypeFunction"
    /\ ~operation.applied
    /\ operation' =
          [operation EXCEPT !.applied = TRUE,
                            !.outcome = numericBinopTypeFunction(
                                            operation.instance, operation.typeParams, ctx,
                                            metamethodOf(operation.function))]
    /\ UNCHANGED <<graphVars, boundTo, state, reentrantTypeReduction, pc, reducer,
                   iterationCount, subject, stack, entry, enableReduction, collected,
                   atStart, applied, returned, runs, requests, ctx, sandbox>>

\* union distribution is applied to the operator and its operands
Distribute ==
    /\ operation.call = "tryDistributeTypeFunctionApp"
    /\ ~operation.applied
    /\ operation' =
          [operation EXCEPT !.applied = TRUE,
                            !.outcome = tryDistributeTypeFunctionApp(
                                            operation.instance, operation.typeParams, ctx,
                                            metamethodOf(operation.function))]
    /\ UNCHANGED <<graphVars, boundTo, state, reentrantTypeReduction, pc, reducer,
                   iterationCount, subject, stack, entry, enableReduction, collected,
                   atStart, applied, returned, runs, requests, ctx, sandbox>>

BinopNext == Reduce \/ Distribute

BinopSpec == BinopInit /\ [][BinopNext]_vars

\* the metamethod each operator looks up
metamethodName(name) ==
    CASE name \in Arithmetic -> metamethodOf(name)
      [] name = "len" -> "__len"
      [] name = "unm" -> "__unm"
      [] name = "concat" -> "__concat"
      [] name = "lt" -> "__lt"
      [] name = "le" -> "__le"
      [] name = "eq" -> "__eq"
      [] OTHER -> "none"

\* what the oracles answer when the operator name is applied: table2 may
\* hold its metamethod, the normalizer may give up on never or on string
OperatorContexts(name) ==
    {[DefaultContext EXCEPT !.metatable = [table1 |-> nullopt, table2 |-> m],
                            !.accepts = a, !.returns = r,
                            !.tooComplex = l, !.unresolved = u,
                            !.cartesianProductLimit = 4] :
        m \in {nullopt, [name |-> metamethodName(name), type |-> "fn"],
               [name |-> metamethodName(name), type |-> "blocked"]},
        a \in {<<"table2">>, <<"table2", "number">>},
        r \in {<<>>, <<"number">>},
        l \in {{}, {"never"}, {"string"}},
        u \in {{}, {"string"}}}

\* the operands: the instance A being reduced, B that is bound to A, C that
\* is bound to number, and types that are pending or not
OperatorOperands(name) ==
    LET lhs == {"A", "B", "C", "number", "string", "never", "any", "blocked", "table1",
                "table2", "union1"}
        rhs == {"A", "B", "number", "never", "blocked", "table2"}
    IN IF name \in Unary THEN {<<x>> : x \in lhs}
       ELSE {<<x, y>> : x \in lhs, y \in rhs}

\* an operator is applied outside a run to the instance A, which is Unsolved,
\* or was left Stuck by an earlier run
OperatorInit ==
    /\ typeArguments = [n \in TypeInstances \cup PackInstances \cup {FreshInstance}
                           |-> <<"number", "number">>]
    /\ packArguments = [n \in TypeInstances \cup PackInstances \cup {FreshInstance}
                           |-> <<>>]
    /\ parts = <<"number", "string">>
    /\ options = [union1 |-> <<"number", "table2">>, union2 |-> <<"number", "string">>]
    /\ function = [n \in TypeInstances |-> "add"] @@ (FreshInstance :> "union")
    /\ owningArena = [n \in Nodes |-> "arena"]
    /\ guesserDepth = -1
    /\ boundTo = [n \in Nodes |-> CASE n = "B" -> "A" [] n = "C" -> "number" [] OTHER -> NULL]
    /\ \E s \in {"Unsolved", "Stuck"} :
           state = [n \in TypeInstances \cup {FreshInstance} |->
                       IF n = "A" THEN s ELSE "Unsolved"]
    /\ InitControl(0)
    /\ \E f \in Operators :
           \E p \in OperatorOperands(f), c \in OperatorContexts(f) :
               /\ ctx = c
               /\ operation = [NoOperation EXCEPT !.call = "operator", !.function = f,
                                                   !.instance = "A", !.typeParams = p]
    /\ sandbox = NoSandbox

\* the reducer of the operator is applied to its operands
Apply ==
    /\ operation.call = "operator"
    /\ ~operation.applied
    /\ operation' =
          [operation EXCEPT !.applied = TRUE,
                            !.outcome = operator(operation.function, operation.instance,
                                                 operation.typeParams, ctx)]
    /\ UNCHANGED <<graphVars, boundTo, state, reentrantTypeReduction, pc, reducer,
                   iterationCount, subject, stack, entry, enableReduction, collected,
                   atStart, applied, returned, runs, requests, ctx, sandbox>>

OperatorNext == Apply

OperatorSpec == OperatorInit /\ [][OperatorNext]_vars

\* what the oracle of stepRefine may answer
Refinements == {"unrefinable", "blocked", "failed", "refined"}

\* refine is applied outside a run to the instance A, a target and one or
\* two discriminants; the target may be a union or an intersection that
\* holds A, directly or in a nested union
RefineInit ==
    /\ packArguments = [n \in TypeInstances \cup PackInstances \cup {FreshInstance}
                           |-> <<>>]
    /\ parts \in {<<"A", "number">>, <<"number", "string">>}
    /\ \E o1 \in {<<"A", "number">>, <<"A", "never">>, <<"number", "A", "string">>,
                   <<"A">>, <<"number", "string">>, <<"A", "blocked">>,
                   <<"A", "number", "number">>, <<"B", "A", "table1">>},
          o2 \in {<<"union1", "table1">>, <<"string", "inter">>, <<"table1", "string">>} :
           options = [union1 |-> o1, union2 |-> o2]
    /\ function = [n \in TypeInstances |-> "refine"] @@ (FreshInstance :> "union")
    /\ owningArena = [n \in Nodes |-> "arena"]
    /\ guesserDepth = -1
    /\ boundTo = [n \in Nodes |-> IF n = "C" THEN "number" ELSE NULL]
    /\ state = [n \in TypeInstances \cup {FreshInstance} |-> "Unsolved"]
    /\ InitControl(0)
    /\ \E copy \in BOOLEAN, refine \in Refinements :
           ctx = [DefaultContext EXCEPT !.avoidExcessiveTypeCopying = copy,
                                        !.refine = refine]
    /\ \E target \in {"union1", "union2", "inter", "number", "A", "blocked", "never"},
          discriminants \in {<<"string">>, <<"table1", "string">>, <<"blocked">>,
                             <<"string", "B">>, <<"A">>} :
           /\ typeArguments = [n \in TypeInstances \cup PackInstances \cup {FreshInstance}
                                  |-> IF n = "A" THEN <<target>> \o discriminants
                                      ELSE <<"number", "number">>]
           /\ operation = [NoOperation EXCEPT !.call = "refineTypeFunction",
                                               !.function = "refine",
                                               !.instance = "A",
                                               !.typeParams = <<target>> \o discriminants]
    /\ sandbox = NoSandbox

\* refine is applied to its target and discriminants
Refine ==
    /\ operation.call = "refineTypeFunction"
    /\ ~operation.applied
    /\ operation' =
          [operation EXCEPT !.applied = TRUE,
                            !.outcome = refineTypeFunction(operation.instance,
                                                           operation.typeParams, ctx)]
    /\ UNCHANGED <<graphVars, boundTo, state, reentrantTypeReduction, pc, reducer,
                   iterationCount, subject, stack, entry, enableReduction, collected,
                   atStart, applied, returned, runs, requests, ctx, sandbox>>

RefineNext == Refine

RefineSpec == RefineInit /\ [][RefineNext]_vars

\* the subject whose reducer is executing is an instance of a user function
user == subject \in TypeNodes /\ function[subject] = "user"

\* the reducer of a user function is called: userDefinedTypeFunction runs up
\* to the call of the body, or to an earlier return
UserCall ==
    /\ pc = "reducer"
    /\ user
    /\ sandbox.phase = "none"
    /\ LET u == userDefinedTypeFunction(subject, typeArguments[subject], ctx)
       IN sandbox' = [phase |-> IF u.entered THEN "running" ELSE "returned",
                      answer |-> u.answer, trace |-> u.trace, interrupts |-> 0]
    /\ UNCHANGED <<graphVars, boundTo, state, reentrantTypeReduction, pc, reducer,
                   iterationCount, subject, stack, entry, enableReduction, collected,
                   atStart, applied, returned, runs, requests, ctx, operation>>

\* the interpreter calls the interrupt handler while the body executes: an
\* exception it throws ends the body, lua_pcall returns an error status and
\* userDefinedTypeFunction returns Erroneous with the error message
Interrupt ==
    /\ sandbox.phase = "running"
    /\ IF interrupt(ctx) # NULL
       THEN sandbox' = [sandbox EXCEPT
                           !.phase = "returned",
                           !.answer = Answer(nullopt, "Erroneous", <<>>,
                                             checkResultForError(interrupt(ctx)), <<>>),
                           !.trace = Append(@, [op |-> "interrupt",
                                                thrown |-> interrupt(ctx)])]
       ELSE /\ sandbox.interrupts < MaxInterrupts
            /\ sandbox' = [sandbox EXCEPT !.interrupts = @ + 1]
    /\ UNCHANGED <<graphVars, boundTo, state, reentrantTypeReduction, pc, reducer,
                   iterationCount, subject, stack, entry, enableReduction, collected,
                   atStart, applied, returned, runs, requests, ctx, operation>>

\* the body returns or raises an error of its own
BodyReturns(value, messages) ==
    /\ sandbox.phase = "running"
    /\ sandbox' = [sandbox EXCEPT !.phase = "returned",
                                  !.answer = afterCall(value, messages)]
    /\ UNCHANGED <<graphVars, boundTo, state, reentrantTypeReduction, pc, reducer,
                   iterationCount, subject, stack, entry, enableReduction, collected,
                   atStart, applied, returned, runs, requests, ctx, operation>>

\* the cancellation token is requested while a user function is reduced
Cancel ==
    /\ pc = "reducer"
    /\ user
    /\ ~ctx.cancellationRequested
    /\ ctx' = [ctx EXCEPT !.cancellationRequested = TRUE]
    /\ UNCHANGED <<graphVars, boundTo, state, reentrantTypeReduction, pc, reducer,
                   iterationCount, subject, stack, entry, enableReduction, collected,
                   atStart, applied, returned, runs, requests, operation, sandbox>>

\* the clock passes limits->finishTime while a user function is reduced
Timeout ==
    /\ pc = "reducer"
    /\ user
    /\ ~ctx.finishTimePassed
    /\ ctx' = [ctx EXCEPT !.finishTimePassed = TRUE]
    /\ UNCHANGED <<graphVars, boundTo, state, reentrantTypeReduction, pc, reducer,
                   iterationCount, subject, stack, entry, enableReduction, collected,
                   atStart, applied, returned, runs, requests, operation, sandbox>>

\* userDefinedTypeFunction returns and the step applies its answer
UserReturns ==
    /\ sandbox.phase = "returned"
    /\ reducerReturned(reductionOfUser(sandbox.answer))
    /\ sandbox' = NoSandbox
    /\ UNCHANGED <<ctx, operation>>

\* the runtime and the definition of the user function in a behaviour
UserContexts ==
    LET alias(n, ty) == [typeParams |-> n, type |-> ty]
        definition(e) == [hasErrors |-> e]
    IN {DefaultContext,
        [DefaultContext EXCEPT !.allowEvaluation = FALSE],
        [DefaultContext EXCEPT !.hasErrors = TRUE],
        [DefaultContext EXCEPT !.allowEvaluation = FALSE,
                               !.environmentAlias = <<alias(0, "blocked")>>],
        [DefaultContext EXCEPT !.hasErrors = TRUE, !.global = FALSE],
        [DefaultContext EXCEPT !.environmentAlias = <<alias(0, "blocked")>>],
        [DefaultContext EXCEPT !.environmentAlias =
                                   <<alias(1, "blocked"), alias(0, "string")>>],
        [DefaultContext EXCEPT !.environmentAlias = <<alias(0, "table1")>>,
                               !.unresolved = {"table1"}],
        [DefaultContext EXCEPT !.environmentFunction = <<definition(FALSE)>>],
        [DefaultContext EXCEPT !.environmentFunction =
                                   <<definition(FALSE), definition(TRUE)>>],
        [DefaultContext EXCEPT !.global = FALSE],
        [DefaultContext EXCEPT !.unserializable = {"string"}],
        [DefaultContext EXCEPT !.unserializable = {"string"},
                               !.environmentFunction = <<definition(FALSE)>>,
                               !.environmentAlias = <<alias(0, "string")>>]}

\* A is an instance of a user function; its arguments may hold the blocked
\* type, the instance B or A itself
UserInit ==
    /\ \E a \in {<<"number">>, <<"union1">>, <<"B">>, <<"A">>, <<"number", "union1">>} :
           typeArguments = [n \in TypeInstances \cup PackInstances \cup {FreshInstance}
                               |-> IF n = "A" THEN a ELSE <<"number", "number">>]
    /\ packArguments = [n \in TypeInstances \cup PackInstances \cup {FreshInstance}
                           |-> <<>>]
    /\ parts = <<"number", "string">>
    /\ \E o1 \in {<<"number", "blocked">>, <<"number", "string">>,
                   <<"blocked", "B", "blocked">>, <<"table1", "string">>} :
           options = [union1 |-> o1, union2 |-> <<"number", "table2">>]
    /\ \E f \in {"add", "user"} :
           function = [n \in TypeInstances |-> IF n = "A" THEN "user"
                                               ELSE IF n = "B" THEN f ELSE "add"]
                         @@ (FreshInstance :> "union")
    /\ owningArena = [n \in Nodes |-> "arena"]
    /\ guesserDepth = -1
    /\ boundTo = [n \in Nodes |-> NULL]
    /\ state = [n \in TypeInstances \cup {FreshInstance} |-> "Unsolved"]
    /\ InitControl(Requests)
    /\ ctx \in UserContexts
    /\ operation = NoOperation
    /\ sandbox = NoSandbox

UserNext ==
    \/ \E f \in BOOLEAN : Request("A", f, Deep)
    \/ \E g \in Guesses : Step(g)
    \/ UserCall
    \/ Interrupt
    \/ \E value \in BodyResults, messages \in {<<>>, <<"print">>} :
          BodyReturns(value, messages)
    \/ Cancel
    \/ Timeout
    \/ UserReturns
    \/ BuiltinReturns
    \/ Return

UserSpec == UserInit /\ [][UserNext]_vars

\* values of DFInt::LuauTypeFamilyUseGuesserDepth: the guesser disabled, and
\* thresholds that the nesting of the graphs reaches
GuesserDepths == {-1, 0, 1, 2}

\* graphs whose instances nest up to three deep, with an instance reached
\* along two paths of different depth, and every threshold
GuessInit ==
    /\ InitGraph([A : {<<"B">>, <<"C", "B">>, <<"B", "C">>},
                  B : {<<"C">>, <<"number">>, <<"A">>},
                  C : {<<"number">>, <<"C">>},
                  P : {<<"number">>}],
                 [A : {<<>>}, B : {<<>>, <<"P">>}, C : {<<>>}, P : {<<>>}],
                 [A : {"add"}, B : {"add"}, C : {"or"}],
                 {{}},
                 GuesserDepths)
    /\ InitControl(Requests)
    /\ NoBuiltinCall

GuessSpec == GuessInit /\ [][Next]_vars

\* instances with a generic argument, bare or inside an intersection, before
\* or after an argument that is an instance; A or B may belong to another arena
GenericInit ==
    /\ \E t \in [A : {<<"generic", "B">>, <<"B", "generic">>, <<"inter", "B">>,
                       <<"C", "generic">>},
                  B : {<<"C">>},
                  C : {<<"number">>, <<"generic">>},
                  P : {<<"number">>}],
          p \in [A : {<<>>, <<"gpack">>}, B : {<<>>}, C : {<<>>}, P : {<<>>}] :
         /\ typeArguments = [n \in TypeInstances \cup PackInstances |-> t[n]]
                               @@ (FreshInstance :> <<"number", "number">>)
         /\ packArguments = [n \in TypeInstances \cup PackInstances |-> p[n]]
                               @@ (FreshInstance :> <<>>)
    /\ parts \in {<<"C", "number">>, <<"number", "generic">>}
    /\ options = [u \in UnionNodes |-> <<>>]
    /\ \E f \in [A : {"add", "or"}, B : {"add"}, C : {"or", "add"}] :
         function = [n \in TypeInstances |-> f[n]] @@ (FreshInstance :> "union")
    /\ \E foreign \in {{}, {"A"}, {"B"}} :
         owningArena = [n \in Nodes |-> IF n \in foreign THEN "foreign" ELSE "arena"]
    /\ guesserDepth = -1
    /\ boundTo = [n \in Nodes |-> NULL]
    /\ state = [n \in TypeInstances \cup {FreshInstance} |-> "Unsolved"]
    /\ InitControl(Requests)
    /\ NoBuiltinCall

GenericSpec == GenericInit /\ [][Next]_vars

\* instances over generics that are bare, bound by a function type, or both
ScopeInit ==
    /\ InitGraph([A : {<<"fn", "generic">>, <<"generic", "fn">>, <<"fn">>, <<"generic">>,
                       <<"C", "B">>},
                  B : {<<"C">>, <<"fn">>},
                  C : {<<"number">>, <<"generic">>},
                  P : {<<"number">>}],
                 [A : {<<>>, <<"gpack">>}, B : {<<>>}, C : {<<>>}, P : {<<>>}],
                 [A : {"user", "add"}, B : {"user"}, C : {"or", "user"}],
                 {{}},
                 {-1})
    /\ InitControl(Requests)
    /\ NoBuiltinCall

ScopeSpec == ScopeInit /\ [][Next]_vars

(***************************************************************************)
(* Properties                                                              *)
(***************************************************************************)

\* nodes from which no function instance is reachable in a fresh graph
Leaves == {"number", "generic", "blocked", "pack", "gpack"}

arguments(n) == Range(typeArguments[n]) \cup Range(packArguments[n])

\* the run in progress (or just returned) started at A or B, which take each
\* other as an argument and nothing else that leads to an instance
MutualPair ==
    /\ "B" \in arguments("A") /\ arguments("A") \subseteq {"B"} \cup Leaves
    /\ "A" \in arguments("B") /\ arguments("B") \subseteq {"A"} \cup Leaves
    /\ entry \in {"A", "B"}
    /\ collected = {"A", "B"}

\* number of errors of the given type in a list of errors
count(errors, type) == Cardinality({i \in DOMAIN errors : errors[i].type = type})

\* the last request was a run that has returned to the solver
Finished == pc = "idle" /\ returned.kind = "run"

extends(r1, r2) ==
    /\ r1.reducedTypes \subseteq r2.reducedTypes
    /\ r1.reducedPacks \subseteq r2.reducedPacks
    /\ r1.blockedTypes \subseteq r2.blockedTypes
    /\ r1.blockedPacks \subseteq r2.blockedPacks
    /\ r1.irreducibleTypes \subseteq r2.irreducibleTypes
    /\ Len(r1.errors) <= Len(r2.errors)
    /\ SubSeq(r2.errors, 1, Len(r1.errors)) = r1.errors
    /\ Len(r1.messages) <= Len(r2.messages)

\* the budget part of C2 that one state shows
C2_Budget ==
    /\ iterationCount <= MaxSteps + 1
    /\ pc = "reducer" => iterationCount <= MaxSteps
    /\ pc \in {"loop", "reducer", "break"} =>
         count(reducer.result.errors, "CodeTooComplex")
             = (IF iterationCount > MaxSteps THEN 1 ELSE 0)
    /\ pc = "break" <=> iterationCount > MaxSteps
    /\ returned.kind = "run" =>
         /\ returned.steps <= MaxSteps + 1
         /\ count(returned.result.errors, "CodeTooComplex")
                = (IF returned.steps > MaxSteps THEN 1 ELSE 0)

\* the part of C2 that one transition shows: a step keeps what the result
\* holds, and the run returns the result as the last step left it
C2_Keeps ==
    /\ (pc \in {"loop", "reducer"} /\ pc' \in {"loop", "reducer", "break"}
            /\ stack' = stack)
         => extends(reducer.result, reducer'.result)
    /\ (pc \in {"loop", "break"} /\ returned' # returned)
         => returned'.result = reducer.result

\* C2 Budget ceiling: a run executes at most MaxSteps + 1 steps, records
\* CodeTooComplex exactly once if it executed more than MaxSteps steps and
\* never otherwise, and returns everything its result held before the abort.
C2_BudgetCeiling == []C2_Budget /\ [][C2_Keeps]_vars

\* a run was aborted by the budget after it had reduced a node
C2_Witness ==
    /\ Finished
    /\ returned.steps = MaxSteps + 1
    /\ count(returned.result.errors, "CodeTooComplex") = 1
    /\ returned.result.reducedTypes # {}
    /\ ~returned.done

\* the arguments a node was built with: of an instance, or the intersection's parts
builtWith(n) ==
    IF n \in DOMAIN typeArguments THEN typeArguments[n] \o packArguments[n]
    ELSE IF n = "inter" THEN parts
    ELSE IF n = "fn" THEN argTypes
    ELSE <<>>

RECURSIVE reach(_, _)
\* nodes reachable from the nodes of todo along the graph as it was built
reach(todo, seen) ==
    IF todo = {} THEN seen
    ELSE LET n == CHOOSE x \in todo : TRUE IN
         reach((todo \cup Range(builtWith(n))) \ (seen \cup {n}), seen \cup {n})

\* f can be reached again from its argument g
inCycle(f, g) == f \in reach({g}, {})

\* g has had its turn in this run: its reducer has returned, or it is marked
\* irreducible, or it has been replaced
attempted(g) ==
    \/ \E i \in DOMAIN applied : applied[i].subject = g
    \/ g \in reducer.irreducible
    \/ g \in reducer.result.reducedTypes \cup reducer.result.reducedPacks

\* instances g that are direct arguments of f, were queued by the collector
\* and are not in a cycle with f
innerInstances(f) ==
    {g \in (arguments(f) \cap collected) \ {f} : ~inCycle(f, g)}

\* C3 as claimed: the reducer of F is never invoked before a direct argument G
\* that is not in a cycle with F has had its reducer invoked or been marked
\* irreducible.
C3_InnermostFirst_Claimed ==
    (pc = "reducer" /\ stack = <<>>) =>
        \A g \in innerInstances(subject) :
            \/ \E i \in DOMAIN applied : applied[i].subject = g
            \/ g \in reducer.irreducible

\* C3 Innermost-first ordering, amended: the reducer of F is never invoked
\* before a direct argument G that is not in a cycle with F has had its turn
\* (reducer invoked, marked irreducible, or replaced by a guess), provided F
\* is not in the true-cycle set, G is not in the true-cycle set and G is not
\* Solved.
C3_InnermostFirst ==
    (pc = "reducer" /\ stack = <<>>
        /\ subject \notin Range(reducer.cyclicTypeFunctions)) =>
        \A g \in innerInstances(subject) :
            \/ attempted(g)
            \/ g \in Range(reducer.cyclicTypeFunctions)
            \/ getState(state, g) = "Solved"

\* C is shared by A and B and the traversal reaches it before B; B, first in
\* the queue, was deferred, and the reducers ran in the order C, B, A
C3_Witness ==
    /\ pc = "reducer" /\ subject = "A" /\ stack = <<>>
    /\ typeArguments["A"] = <<"C", "B">> /\ typeArguments["B"] = <<"C">>
    /\ innerInstances("A") = {"B", "C"} /\ innerInstances("B") = {"C"}
    /\ reducer.cyclicTypeFunctions = <<>>
    /\ invoked = <<"C", "B", "A">>

\* the transition is a reduction request made by the reducer that is executing
requestFromReducer ==
    /\ pc = "reducer"
    /\ ~(Len(applied') = Len(applied) + 1 /\ stack' = stack)

\* what C4 asks of one transition
C4_Guarded ==
    (requestFromReducer /\ reentrantTypeReduction) =>
        /\ returned'.result = EmptyResult
        /\ returned'.steps = 0
        /\ pc' = pc /\ stack' = stack
        /\ UNCHANGED <<boundTo, state, reducer, iterationCount, applied>>

\* C4 Re-entrancy guard: a reduction request made while reentrantTypeReduction
\* is set returns an empty result, executes no scheduler step, binds no node
\* and changes no tri-state.
C4_ReentrancyGuard == [][C4_Guarded]_vars

\* a builtin's reducer asked for the reduction of an entry point that holds
\* an instance and was turned away by the guard
C4_Witness ==
    /\ pc = "reducer" /\ reentrantTypeReduction
    /\ function[subject] # "user"
    /\ returned.kind = "reentrant" /\ returned.depth = Len(stack) + 1
    /\ isInstance(returned.entry)
    /\ returned.result = EmptyResult

\* C5 as claimed: no run is ever suspended inside a reducer while another run
\* is inside its step loop.
C5_SingleActiveRun_Claimed == stack = <<>>

\* C5 Single active run, amended: two reduction runs are inside their step
\* loop at the same time only if the outer one is executing the reducer of a
\* user-defined type function, which clears the flag for the time of its
\* body; a run requested from inside any other reducer never starts.
C5_SingleActiveRun ==
    \A i \in DOMAIN stack :
        /\ stack[i].subject \in TypeNodes
        /\ function[stack[i].subject] = "user"

\* a run requested by a user-defined function is inside its step loop
\* while the run that invoked the function is suspended
C5_Witness ==
    /\ Len(stack) = 1 /\ pc = "loop" /\ ~done(reducer)
    /\ function[stack[1].subject] = "user"
    /\ stack[1].enableReduction = <<TRUE>>

(***************************************************************************)
(* Requests that find nothing to reduce                                    *)
(***************************************************************************)

RECURSIVE reachable(_, _)
\* nodes reachable from the nodes of todo in the graph as it is now: a bound
\* node leads to what it is bound to, any other node to what it was built with
reachable(todo, seen) ==
    IF todo = {} THEN seen
    ELSE LET n == CHOOSE x \in todo : TRUE
             next == IF boundTo[n] # NULL THEN {boundTo[n]} ELSE Range(builtWith(n))
         IN reachable((todo \cup next) \ (seen \cup {n}), seen \cup {n})

\* no node reachable from e is a function instance
noInstanceFrom(e) ==
    \A n \in reachable({e}, {}) :
        \/ boundTo[n] # NULL
        \/ kindOf(n) \notin {"TypeFunctionInstanceType", "TypeFunctionInstanceTypePack"}

\* this step is a request of the solver
requested == pc = "idle" /\ runs' = runs + 1

\* the request of this step was answered at once with an empty result, no
\* scheduler step was made and no node changed
answeredEmpty ==
    /\ pc' = "idle"
    /\ returned'.entry = entry'
    /\ returned'.result = EmptyResult
    /\ returned'.irreducible = {}
    /\ returned'.steps = 0
    /\ iterationCount' = iterationCount
    /\ UNCHANGED <<graphVars, boundTo, state>>

C6_Request == (requested /\ noInstanceFrom(entry')) => answeredEmpty

\* C6 Nothing to reduce: a request for an entry type or pack from which no
\* function instance is reachable returns the empty result (nothing reduced,
\* no error, no message, nothing blocked or irreducible), makes no scheduler
\* step and leaves every node as it was.
C6_NothingToReduce == [][C6_Request]_vars

\* a request for the intersection, whose only instance a first run has bound
\* to number, was answered with the empty result without a step
C6_Witness ==
    /\ pc = "idle" /\ runs = 2
    /\ returned.entry = "inter" /\ noInstanceFrom("inter")
    /\ boundTo["C"] = "number"
    /\ returned.result = EmptyResult /\ returned.steps = 0

\* the run that has just returned reports every instance it queued as
\* reduced, and no reducer returned a function instance as the replacement
fullyReduced ==
    /\ Finished
    /\ collected \subseteq (returned.result.reducedTypes \cup returned.result.reducedPacks)
    /\ \A i \in DOMAIN applied :
           /\ applied[i].reduction.result # NULL
           /\ applied[i].reduction.result # FreshInstance

C7_Request == (requested /\ fullyReduced /\ entry' = entry) => answeredEmpty

\* C7 Idempotence: after a run that bound every reachable function instance
\* to a result holding no function instance, a second request for the same
\* entry point binds no node, changes no tri-state and returns the empty
\* result with no errors.
C7_Idempotence == [][C7_Request]_vars

\* A, B and C were all reduced to number by a first run from A, and the
\* second request from A came back empty
C7_Witness ==
    /\ pc = "idle" /\ runs = 2 /\ entry = "A"
    /\ collected = {"A", "B", "C"}
    /\ \A n \in collected : boundTo[n] = "number"
    /\ Len(applied) = 3
    /\ returned.result = EmptyResult /\ returned.steps = 0

(***************************************************************************)
(* Applying what a reducer returned                                        *)
(***************************************************************************)

\* this step applies the answer of a reducer; it is the last entry of applied'
applies == pc = "reducer" /\ Len(applied') = Len(applied) + 1

\* number of uninhabited-function errors recorded for sub
uninhabited(errors, sub) ==
    Cardinality({i \in DOMAIN errors :
                    /\ errors[i].type \in {"UninhabitedTypeFunction",
                                           "UninhabitedTypePackFunction"}
                    /\ errors[i].ty = sub})

reduced(r) == r.result.reducedTypes \cup r.result.reducedPacks

C8_Applied ==
    applies =>
        LET a == applied'[Len(applied')]
            sub == a.subject
        IN (a.reduction.result # NULL /\ owningArena[sub] = "arena") =>
              /\ boundTo'[sub] = a.reduction.result
              /\ sub \in reduced(reducer')
              /\ reducer'.irreducible = reducer.irreducible
              /\ state' = state
              /\ uninhabited(reducer'.result.errors, sub)
                     = uninhabited(reducer.result.errors, sub)

\* C8 Successful reduction: when a reducer returns a replacement for an
\* instance that the engine's arena owns, the instance is bound to the
\* replacement and added to the reduced set, the application adds nothing to
\* the irreducible set, changes no tri-state and records no uninhabited error
\* for the instance.
C8_Success == [][C8_Applied]_vars

\* the reducer of the pack instance P returned a pack and P is bound to it
C8_Witness ==
    /\ pc \in {"loop", "break"}
    /\ \E i \in DOMAIN applied :
           /\ applied[i].subject = "P"
           /\ applied[i].reduction.result = "pack"
    /\ boundTo["P"] = "pack"
    /\ "P" \in reducer.result.reducedPacks
    /\ "P" \notin reducer.irreducible

blocked(a) ==
    /\ a.reduction.result = NULL
    /\ a.reduction.reductionStatus = "MaybeOk"
    /\ ~a.force

C9_Applied ==
    applies =>
        LET a == applied'[Len(applied')]
            sub == a.subject
        IN blocked(a) =>
              /\ sub \in reducer'.irreducible
              /\ state' = state
              /\ uninhabited(reducer'.result.errors, sub)
                     = uninhabited(reducer.result.errors, sub)
              /\ a.reduction.blockedTypes \subseteq reducer'.result.blockedTypes
              /\ a.reduction.blockedPacks \subseteq reducer'.result.blockedPacks

C9_Returned ==
    Finished =>
        \A i \in DOMAIN applied :
            blocked(applied[i]) =>
              /\ applied[i].reduction.blockedTypes \subseteq returned.result.blockedTypes
              /\ applied[i].reduction.blockedPacks \subseteq returned.result.blockedPacks
              /\ applied[i].subject \in returned.irreducible

\* C9 Blocked reduction: when a reducer returns no replacement with status
\* MaybeOk in a run that is not forced, the instance joins the irreducible
\* set, no tri-state changes, no uninhabited error is recorded, and every
\* blocking type and pack the reducer named is in the blocked sets of the
\* result the run returns.
C9_Blocked == []C9_Returned /\ [][C9_Applied]_vars

\* a run has returned in which the reducer of P named a blocking type and a
\* blocking pack
C9_Witness ==
    /\ Finished
    /\ \E i \in DOMAIN applied :
           /\ applied[i].subject = "P"
           /\ blocked(applied[i])
           /\ applied[i].reduction.blockedTypes = {"blocked"}
           /\ applied[i].reduction.blockedPacks = {"gpack"}
    /\ "blocked" \in returned.result.blockedTypes
    /\ "gpack" \in returned.result.blockedPacks
    /\ "P" \in returned.irreducible

failed(a) ==
    /\ a.reduction.result = NULL
    /\ a.reduction.reductionStatus # "MaybeOk" \/ a.force

\* the tri-state a failure with this status gives an Unsolved instance
stateAfter(status) ==
    IF status = "Irreducible" THEN "Solved" ELSE "Stuck"

\* one more uninhabited error for sub, the blocked sets as they were, and no
\* tri-state but that of sub touched
failureRecorded(sub) ==
    /\ uninhabited(reducer'.result.errors, sub)
           = uninhabited(reducer.result.errors, sub) + 1
    /\ reducer'.result.blockedTypes = reducer.result.blockedTypes
    /\ reducer'.result.blockedPacks = reducer.result.blockedPacks
    /\ \A n \in DOMAIN state : n # sub => state'[n] = state[n]

C10_Applied_Claimed ==
    applies =>
        LET a == applied'[Len(applied')]
            sub == a.subject
        IN failed(a) =>
              /\ failureRecorded(sub)
              /\ sub \in TypeNodes =>
                    state'[sub] = IF state[sub] = "Unsolved"
                                  THEN stateAfter(a.reduction.reductionStatus)
                                  ELSE state[sub]

C10_Applied ==
    applies =>
        LET a == applied'[Len(applied')]
            sub == a.subject
        IN failed(a) =>
              /\ failureRecorded(sub)
              /\ sub \in TypeNodes =>
                    state'[sub] = IF state[sub] = "Unsolved" /\ owningArena[sub] = "arena"
                                  THEN stateAfter(a.reduction.reductionStatus)
                                  ELSE state[sub]

C10_WitnessKept ==
    \E i \in DOMAIN applied :
        /\ failed(applied[i])
        /\ applied[i].subject \in TypeNodes
        /\ applied[i].before # "Unsolved"

(***************************************************************************)
(* Tri-states and the result record                                        *)
(***************************************************************************)

Terminal == {"Stuck", "Solved"}

\* a tri-state that a step of the run in progress has made terminal is not
\* changed by this step
C11_Kept ==
    \A n \in DOMAIN state :
        (pc # "idle" /\ state[n] \in Terminal /\ state[n] # atStart[n])
            => state'[n] = state[n]

\* C11 Tri-state monotonicity: within one run, once the state of a function
\* instance has been set to Stuck or to Solved, no later step of that run
\* sets it back to Unsolved or changes it to the other terminal value.
C11_Monotonic == [][C11_Kept]_vars

\* an instance that this run had made Stuck was given to its reducer, which
\* answered Irreducible, and the instance is still Stuck
C11_Witness ==
    /\ pc \in {"loop", "break"}
    /\ \E i \in DOMAIN applied :
           LET a == applied[i] IN
           /\ a.subject \in TypeNodes
           /\ atStart[a.subject] = "Unsolved"
           /\ a.before = "Stuck"
           /\ a.reduction.result = NULL
           /\ a.reduction.reductionStatus = "Irreducible"
           /\ state[a.subject] = "Stuck"

\* no node of the result is both reduced and the subject of an uninhabited error
disjoint(result) ==
    \A n \in result.reducedTypes \cup result.reducedPacks :
        uninhabited(result.errors, n) = 0

\* C12 Reduced or uninhabited, never both: in every state of a run, and in
\* the result it returns, no node is both in the reduced set and the subject
\* of an uninhabited-function error.
C12_ReducedNotUninhabited == disjoint(reducer.result) /\ disjoint(returned.result)

\* a run has returned that reduced B and reported A as uninhabited, and that
\* popped some instance more than once
C12_Witness ==
    /\ Finished
    /\ "B" \in returned.result.reducedTypes
    /\ uninhabited(returned.result.errors, "A") = 1
    /\ returned.steps > Cardinality(collected)

(***************************************************************************)
(* Nodes of another arena                                                  *)
(***************************************************************************)

C13_Applied ==
    applies =>
        LET a == applied'[Len(applied')]
            sub == a.subject
        IN (a.reduction.result # NULL /\ owningArena[sub] # "arena") =>
              /\ boundTo' = boundTo
              /\ sub \notin reduced(reducer')
              /\ reduced(reducer') = reduced(reducer)
              /\ count(reducer'.result.errors, "InternalError")
                     = count(reducer.result.errors, "InternalError") + 1

\* C13 Foreign-arena rejection: when the scheduler is to bind an instance
\* that another arena owns, the node stays unbound, it is not added to the
\* reduced set, and one internal error is recorded in the result.
C13_ForeignRejected == [][C13_Applied]_vars

\* the reducer of C, which another arena owns, returned a replacement; C is
\* still unbound and the result holds the internal error
C13_Witness ==
    /\ pc \in {"loop", "break"}
    /\ owningArena["C"] = "foreign"
    /\ \E i \in DOMAIN applied :
           applied[i].subject = "C" /\ applied[i].reduction.result = "number"
    /\ boundTo["C"] = NULL
    /\ "C" \notin reducer.result.reducedTypes
    /\ count(reducer.result.errors, "InternalError") = 1

\* this step applies a failure that calls setState on an Unsolved type
\* instance of another arena
foreignUpdateApplied ==
    /\ applies
    /\ LET a == applied'[Len(applied')] IN
       /\ failed(a)
       /\ a.subject \in TypeNodes
       /\ owningArena[a.subject] # "arena"
       /\ state[a.subject] = "Unsolved"

\* this step is a pop whose testParameters calls setState on a type instance
\* of another arena
foreignUpdateTested ==
    /\ pc = "loop" /\ reducer.queuedTys # <<>>
    /\ iterationCount' # iterationCount \/ pc' = "reducer"
    /\ LET sub == follow(Head(reducer.queuedTys)) IN
       /\ isInstance(sub)
       /\ owningArena[sub] # "arena"
       /\ sub \notin reducer.irreducible
       /\ ~(function[sub] = "user" /\ UnscopedGenericFinder(sub))
       /\ firstNotReady(reducer, sub, typeArguments[sub] \o packArguments[sub])
              \in {"Stuck", "Solved"}

C14_Attempt ==
    (foreignUpdateApplied \/ foreignUpdateTested) =>
        count(reducer'.result.errors, "InternalError")
            > count(reducer.result.errors, "InternalError")

\* C14 Foreign-arena state updates are reported: whenever the scheduler
\* attempts to update the tri-state of a function instance that another arena
\* owns, an internal error is recorded in the result.
C14_ForeignStateReported == [][C14_Attempt]_vars

(***************************************************************************)
(* The collector                                                           *)
(***************************************************************************)

\* the request of this step ended in the handler of RecursionLimitException
aborted == requested /\ returned'.kind = "limit"

C15_Request ==
    aborted =>
        /\ answeredEmpty
        /\ returned'.result.errors = <<>>
        /\ InstanceCollector(entry').deepest > Shallow

\* C15 Recursion-limit abort: when the traversal of the collector raises the
\* recursion-limit exception, reduceTypeFunctions returns an empty result
\* with no errors, no scheduler step is made, and no node is bound or has its
\* tri-state changed.
C15_RecursionLimit == [][C15_Request]_vars

\* a request for A, from which instances are reachable, was abandoned at the
\* recursion limit: nothing is bound and every instance is Unsolved
C15_Witness ==
    /\ pc = "idle" /\ runs = 1
    /\ returned.kind = "limit" /\ returned.entry = "A"
    /\ returned.result = EmptyResult /\ returned.steps = 0
    /\ isInstance("A") /\ isInstance("B")
    /\ \A n \in Nodes : boundTo[n] = NULL
    /\ \A n \in DOMAIN state : state[n] = "Unsolved"

(***************************************************************************)
(* What a pop does with its subject                                        *)
(***************************************************************************)

RECURSIVE bare(_, _)
\* nodes reachable from the nodes of todo without entering a function type
bare(todo, seen) ==
    IF todo = {} THEN seen
    ELSE LET n == CHOOSE x \in todo : TRUE
             next == IF boundTo[n] # NULL THEN {boundTo[n]}
                     ELSE IF kindOf(n) = "FunctionType" THEN {}
                     ELSE Range(builtWith(n))
         IN bare((todo \cup next) \ (seen \cup {n}), seen \cup {n})

\* sub holds a generic type or pack outside every function type that binds it
holdsUnscoped(sub) ==
    \E g \in bare({sub}, {}) :
        boundTo[g] = NULL /\ kindOf(g) \in {"GenericType", "GenericTypePack"}

\* this step pops a type: the subject of the pop
popsType == pc = "loop" /\ reducer.queuedTys # <<>>

typeSubject == follow(Head(reducer.queuedTys))

\* the errors of a result that are not the budget's
diagnostics(result) == SelectSeq(result.errors, LAMBDA e : e.type # "CodeTooComplex")

\* the step neither calls a reducer nor binds a node, changes a tri-state or
\* records an error
noAttempt ==
    /\ pc' # "reducer"
    /\ boundTo' = boundTo
    /\ state' = state
    /\ diagnostics(reducer'.result) = diagnostics(reducer.result)
    /\ reducer'.result.messages = reducer.result.messages

C16_Step ==
    /\ (/\ popsType
        /\ isInstance(typeSubject) /\ function[typeSubject] = "user"
        /\ typeSubject \notin reducer.irreducible
        /\ holdsUnscoped(typeSubject))
       => /\ typeSubject \in reducer'.irreducible
          /\ typeSubject \in reducer'.result.irreducibleTypes
          /\ noAttempt
    /\ (popsType /\ typeSubject \in reducer.irreducible)
       => /\ noAttempt
          /\ reducer'.irreducible = reducer.irreducible

\* C16 Unscoped generics in user functions: when a popped instance of the
\* "user" function holds a generic type or pack that no enclosing function
\* type inside the instance binds, the step adds it to the irreducible set
\* and to the result's irreducible types, invokes neither the reducer nor the
\* guesser, records no error and changes no tri-state; every later pop of
\* the instance in the run skips it.
C16_UnscopedGeneric == [][C16_Step]_vars

\* this step pops a type instance that reaches testParameters, and the first
\* of its arguments that is not ready is classified Stuck
stuckDependency ==
    /\ popsType
    /\ isInstance(typeSubject)
    /\ typeSubject \notin reducer.irreducible
    /\ ~(function[typeSubject] = "user" /\ UnscopedGenericFinder(typeSubject))
    /\ firstNotReady([reducer EXCEPT !.queuedTys = Tail(@)], typeSubject,
                     typeArguments[typeSubject] \o packArguments[typeSubject]) = "Stuck"

C17_Step_Claimed ==
    stuckDependency =>
        /\ typeSubject \in reducer'.irreducible
        /\ state'[typeSubject] = "Stuck"
        /\ pc' = "reducer" /\ subject' = typeSubject

\* C17 as claimed: when an argument of the popped instance is classified
\* Stuck, the instance is added to the irreducible set, its tri-state is set
\* to Stuck, and its reducer is still invoked in the same step.
C17_StuckDispatches_Claimed == [][C17_Step_Claimed]_vars

\* sub is in the true-cycle set and was Unsolved when it was popped
dispatchedAsCyclic(sub) ==
    sub \in Range(reducer.cyclicTypeFunctions) /\ state[sub] = "Unsolved"

C17_Step ==
    stuckDependency =>
        /\ typeSubject \in reducer'.irreducible
        /\ owningArena[typeSubject] = "arena" => state'[typeSubject] = "Stuck"
        /\ owningArena[typeSubject] # "arena" => state'[typeSubject] = state[typeSubject]
        /\ boundTo' = boundTo
        /\ IF dispatchedAsCyclic(typeSubject)
           THEN pc' = "reducer" /\ subject' = typeSubject
           ELSE pc' # "reducer"

\* C17 Stuck dependency, amended: when the first argument of the popped
\* instance that is not ready is classified Stuck, the instance is added to
\* the irreducible set and, if the engine's arena owns it, its tri-state is
\* set to Stuck; its reducer is invoked in that step only if the instance is
\* in the true-cycle set and was Unsolved when popped, otherwise the step
\* ends without a reducer call.
C17_StuckDependency == [][C17_Step]_vars

\* A was popped after its argument C had become Stuck: A is Stuck and
\* irreducible and its reducer has not been invoked
C17_Witness ==
    /\ pc = "loop"
    /\ typeArguments["A"] = <<"C", "B">>
    /\ state["C"] = "Stuck" /\ state["A"] = "Stuck"
    /\ "A" \in reducer.irreducible
    /\ "A" \notin Range(reducer.cyclicTypeFunctions)
    /\ \A i \in DOMAIN applied : applied[i].subject # "A"

\* what the argument p of sub decides when it is looked at alone
decides(sub, p) ==
    LET skip == testForSkippability(reducer, p)
        generic == skip = "Generic" /\ ~canReduceGenerics(function[sub])
    IN CASE skip = "Stuck" /\ p \in TypeNodes -> "Stuck"
         [] skip = "Irreducible" -> "Irreducible"
         [] generic -> IF p \in TypeNodes THEN "Solved" ELSE "Irreducible"
         [] skip = "Defer" -> "Defer"
         [] OTHER -> "Ready"

\* what the first argument of sub that is not ready decides: type arguments
\* in order, then pack arguments in order
expected(sub) ==
    LET args == typeArguments[sub] \o packArguments[sub]
        notReady == {i \in DOMAIN args : decides(sub, args[i]) # "Ready"}
    IN IF notReady = {} THEN "Ready"
       ELSE decides(sub, args[CHOOSE i \in notReady : \A j \in notReady : i <= j])

\* the queue this step pops from, its subject, and the queue after the step
frontQueue(r) == IF reducer.queuedTys # <<>> THEN r.queuedTys ELSE r.queuedTps

popped == follow(Head(frontQueue(reducer)))

\* this step pops an instance that reaches testParameters
tested ==
    /\ pc = "loop" /\ ~done(reducer)
    /\ isInstance(popped)
    /\ popped \notin reducer.irreducible
    /\ ~(popped \in TypeNodes /\ function[popped] = "user" /\ UnscopedGenericFinder(popped))

C18_Step ==
    tested =>
        CASE expected(popped) = "Defer" ->
                /\ frontQueue(reducer') = Append(Tail(frontQueue(reducer)), popped)
                /\ reducer'.irreducible = reducer.irreducible
                /\ state' = state
          [] expected(popped) = "Ready" ->
                /\ frontQueue(reducer') = Tail(frontQueue(reducer))
                /\ reducer'.irreducible = reducer.irreducible
                /\ state' = state
                /\ pc' = "reducer"
          [] OTHER ->
                /\ frontQueue(reducer') = Tail(frontQueue(reducer))
                /\ reducer'.irreducible = reducer.irreducible \cup {popped}

\* C18 First non-ready argument wins: testParameters looks at the type
\* arguments in order and then at the pack arguments in order, and the first
\* argument that is not ready alone decides: for [deferring, irreducible] the
\* instance goes to the back of its queue and is not marked irreducible, for
\* [irreducible, deferring] it is marked irreducible and not queued again.
C18_FirstNotReady == [][C18_Step]_vars

\* A<C, B> was popped when C led to an instance that is not queued and B was
\* irreducible: A is back in the queue and not irreducible
C18_Witness ==
    /\ pc = "loop"
    /\ typeArguments["A"] = <<"C", "B">>
    /\ decides("A", "C") = "Defer" /\ decides("A", "B") = "Irreducible"
    /\ iterationCount >= 3
    /\ reducer.queuedTys = <<"A">>
    /\ "A" \notin reducer.irreducible

\* A<C, B> was popped when C was irreducible and B led to an instance that
\* is not queued: A is irreducible and the queue is empty
C18_WitnessOrder ==
    /\ pc = "loop"
    /\ typeArguments["A"] = <<"C", "B">>
    /\ decides("A", "C") = "Irreducible" /\ decides("A", "B") = "Defer"
    /\ reducer.queuedTys = <<>>
    /\ "A" \in reducer.irreducible

(***************************************************************************)
(* The queues                                                              *)
(***************************************************************************)

\* q2 is q1 without its head, or that with the resolved head at the back
poppedOne(q1, q2) ==
    q1 # <<>> /\ (q2 = Tail(q1) \/ q2 = Append(Tail(q1), follow(Head(q1))))

\* the queues of the run in progress are not those of another run
sameRun == stack' = stack /\ pc' # "idle"

C19_Step ==
    /\ (pc = "loop" /\ ~done(reducer) /\ sameRun) =>
          IF reducer.queuedTys # <<>>
          THEN /\ poppedOne(reducer.queuedTys, reducer'.queuedTys)
               /\ reducer'.queuedTps = reducer.queuedTps
          ELSE /\ poppedOne(reducer.queuedTps, reducer'.queuedTps)
               /\ reducer'.queuedTys = <<>>
    /\ (pc = "reducer" /\ sameRun) =>
          /\ reducer'.queuedTys = reducer.queuedTys
          /\ reducer'.queuedTps = reducer.queuedTps

\* C19 Types before packs: a scheduler step pops from the pack queue only
\* when the type queue is empty, and every step pops exactly one item from
\* exactly one queue.
C19_TypesBeforePacks == [][C19_Step]_vars

\* the pack instance P has been popped and given to its reducer after the
\* type queue had run empty, in a run that also popped types
C19_Witness ==
    /\ pc = "reducer" /\ subject = "P"
    /\ reducer.queuedTys = <<>> /\ reducer.queuedTps = <<>>
    /\ "B" \in collected /\ "P" \in collected
    /\ iterationCount >= 2

\* the instances reachable from e, as the graph is now
instancesFrom(e) ==
    {n \in reachable({e}, {}) :
        /\ boundTo[n] = NULL
        /\ kindOf(n) \in {"TypeFunctionInstanceType", "TypeFunctionInstanceTypePack"}}

\* the sequence q lists the elements of the set S once each
lists(q, S) == Range(q) = S /\ Len(q) = Cardinality(S)

\* this step is a request that started a run
started == pc \in {"idle", "reducer"} /\ pc' = "loop" /\ iterationCount' = 0
               /\ Len(stack') >= Len(stack) /\ applied' = <<>>

C20_Collected ==
    started =>
        /\ lists(reducer'.queuedTys, instancesFrom(entry') \cap TypeNodes)
        /\ lists(reducer'.queuedTps, instancesFrom(entry') \cap PackNodes)
        /\ boundTo' = boundTo /\ state' = state

\* a queue after a step holds what it held, less its head, and at most the
\* popped entry itself once more at the back
C20_Inserted_Claimed ==
    (pc = "loop" /\ ~done(reducer) /\ sameRun) =>
        LET q == frontQueue(reducer) IN
        frontQueue(reducer') \in {Tail(q), Append(Tail(q), Head(q))}

C20_Inserted ==
    (pc = "loop" /\ ~done(reducer) /\ sameRun) =>
        LET q == frontQueue(reducer) IN
        frontQueue(reducer') \in {Tail(q), Append(Tail(q), follow(Head(q)))}

ownArgument(sub) ==
    \E i \in DOMAIN typeArguments[sub] : follow(typeArguments[sub][i]) = sub

\* this step pops an arithmetic instance that is its own argument and that
\* no earlier step has made irreducible
popsSelfReferent ==
    /\ popsType
    /\ isInstance(typeSubject)
    /\ function[typeSubject] \in Arithmetic
    /\ typeSubject \notin reducer.irreducible
    /\ ownArgument(typeSubject)

\* this step applies what the reducer of an arithmetic instance that is its
\* own argument returned
appliesSelfReferent == applies /\ arithmetic /\ ownArgument(subject)

C21_Step_Claimed ==
    /\ popsSelfReferent =>
          /\ pc' = "reducer" /\ subject' = typeSubject
          /\ typeSubject \notin reducer'.irreducible
    /\ appliesSelfReferent =>
          /\ boundTo'[subject] = "never"
          /\ subject \notin reducer'.irreducible
          /\ uninhabited(reducer'.result.errors, subject) = 0

returnsSelfReferent ==
    /\ pc = "loop" /\ done(reducer)
    /\ entry \in TypeInstances
    /\ function[entry] \in Arithmetic
    /\ entry \in Range(typeArguments[entry])
    /\ owningArena[entry] = "arena"

C21_Step ==
    /\ popsSelfReferent /\ state[typeSubject] = "Unsolved" =>
          pc' = "reducer" /\ subject' = typeSubject
    /\ appliesSelfReferent =>
          LET a == applied'[Len(applied')] IN
          /\ a.reduction.result = "never"
          /\ a.reduction.reductionStatus = "MaybeOk"
          /\ owningArena[subject] = "arena" =>
                /\ boundTo'[subject] = "never"
                /\ subject \in reducer'.result.reducedTypes
          /\ owningArena[subject] # "arena" => boundTo'[subject] = NULL
          /\ uninhabited(reducer'.result.errors, subject) = 0
    /\ returnsSelfReferent /\ atStart[entry] = "Unsolved" =>
          /\ boundTo[entry] = "never"
          /\ uninhabited(reducer.result.errors, entry) = 0

distribution == operation.applied /\ operation.call = "tryDistributeTypeFunctionApp"

\* the operator has been applied on its own
reduction == operation.applied /\ operation.call = "numericBinopTypeFunction"

\* the position of the first argument that is a union, 0 when there is none
firstUnion(typeParams) ==
    LET unions == {i \in DOMAIN typeParams : is(follow(typeParams[i]), "UnionType")}
    IN IF unions = {} THEN 0 ELSE CHOOSE i \in unions : \A j \in unions : i <= j

\* the options of the first union argument
firstOptions(typeParams) ==
    IF firstUnion(typeParams) = 0 THEN <<>>
    ELSE options[follow(typeParams[firstUnion(typeParams)])]

\* the arguments of the application to the k-th option
branchArguments(typeParams, k) ==
    [typeParams EXCEPT ![firstUnion(typeParams)] = firstOptions(typeParams)[k]]

\* the applications of the operator to the k-th option that the trace holds
branches(trace, typeParams, k) ==
    {i \in DOMAIN trace : /\ trace[i].op = "f"
                          /\ trace[i].typeParams = branchArguments(typeParams, k)}

\* the application to every option returned a replacement with MaybeOk and
\* no blocked node
branchesReduced(trace, typeParams) ==
    /\ firstOptions(typeParams) # <<>>
    /\ \A k \in DOMAIN firstOptions(typeParams) :
          \E i \in branches(trace, typeParams, k) :
             /\ trace[i].result # nullopt
             /\ trace[i].reductionStatus = "MaybeOk"
             /\ trace[i].blockedTypes = <<>>

\* the result of the application to the k-th option
branchResult(trace, typeParams, k) ==
    trace[CHOOSE i \in branches(trace, typeParams, k) : TRUE].result

\* C22 Union distribution result: when the applications of the operator to
\* every option of the first union argument return a replacement with status
\* MaybeOk and no blocked node, distribution returns MaybeOk with no blocked
\* node and as replacement the single branch result when there is one option,
\* otherwise a new instance of the union function over the branch results in
\* option order; when no argument is a union, distribution returns nothing
\* and the operator goes on to look up the metamethod of its left operand.
C22_DistributionResult ==
    LET typeParams == operation.typeParams
        r == operation.outcome
        n == Len(firstOptions(typeParams))
    IN /\ distribution /\ firstUnion(typeParams) = 0 => ~r.distributed
       /\ distribution /\ firstUnion(typeParams) # 0
             /\ branchesReduced(r.trace, typeParams) =>
             /\ r.distributed
             /\ r.reductionStatus = "MaybeOk"
             /\ r.blockedTypes = <<>>
             /\ r.result = IF n = 1 THEN branchResult(r.trace, typeParams, 1)
                           ELSE unionFunc([k \in 1..n |->
                                              branchResult(r.trace, typeParams, k)])
       /\ reduction /\ firstUnion(typeParams) = 0 /\ r.trace # <<>>
             /\ r.trace[1].op = "tryDistributeTypeFunctionApp" =>
             /\ ~r.trace[1].distributed
             /\ Len(r.trace) >= 2
             /\ r.trace[2] = [op |-> "findMetatableEntry", ty |-> follow(typeParams[1])]

\* number + (number | table2) is distributed into add<number, t>, t being
\* what the metamethod of table2 returns
C22_Witness ==
    /\ distribution
    /\ operation.typeParams = <<"number", "union2">>
    /\ options["union2"] = <<"number", "table2">>
    /\ branchesReduced(operation.outcome.trace, operation.typeParams)
    /\ operation.outcome.result = unionFunc(<<Ty("number"), Ty("string")>>)

\* distribution returned a replacement
distributedResult ==
    /\ distribution
    /\ operation.outcome.distributed
    /\ operation.outcome.result # nullopt

\* the application to the k-th option returned a replacement with MaybeOk and
\* no blocked node
branchReduced(trace, typeParams, k) ==
    \E i \in branches(trace, typeParams, k) :
        /\ trace[i].result # nullopt
        /\ trace[i].reductionStatus = "MaybeOk"
        /\ trace[i].blockedTypes = <<>>

\* the application to the k-th option returned no replacement, with MaybeOk
\* and no blocked node
branchGaveUp(trace, typeParams, k) ==
    \E i \in branches(trace, typeParams, k) :
        /\ trace[i].result = nullopt
        /\ trace[i].reductionStatus = "MaybeOk"
        /\ trace[i].blockedTypes = <<>>

\* C39 Distribution is all-or-nothing: tryDistributeTypeFunctionApp returns a
\* replacement only if the operator returned a replacement for every option
\* of the distributed union; if the application to any option returns no
\* replacement, the distributed application returns no replacement, never a
\* result built from only the options processed before it.
C39_AllOrNothing ==
    distributedResult =>
        branchesReduced(operation.outcome.trace, operation.typeParams)

\* distribution as built: a replacement is built from the results of the
\* first n options, and either these are all the options or the application
\* to the next option returned no replacement with MaybeOk and no blocked
\* node, which ends the loop without failing the distribution
C39_AllOrNothing_AsBuilt ==
    distributedResult =>
        LET typeParams == operation.typeParams
            r == operation.outcome
            all == Len(firstOptions(typeParams))
        IN \E n \in 1..all :
              /\ \A k \in 1..n : branchReduced(r.trace, typeParams, k)
              /\ n < all => branchGaveUp(r.trace, typeParams, n + 1)
              /\ r.result = IF n = 1 THEN branchResult(r.trace, typeParams, 1)
                            ELSE unionFunc([k \in 1..n |->
                                               branchResult(r.trace, typeParams, k)])

\* add<number | string | table1, number> when the normalizer gives up on
\* string: the replacement is number, the result for the first option alone
C39_WitnessPartial ==
    /\ distributedResult
    /\ operation.typeParams = <<"union1", "number">>
    /\ options["union1"] = <<"number", "string", "table1">>
    /\ branchGaveUp(operation.outcome.trace, operation.typeParams, 2)
    /\ operation.outcome.result = Ty("number")

RECURSIVE product(_, _)
\* the product of the option counts of the union arguments from position i on
product(typeParams, i) ==
    IF i > Len(typeParams) THEN 1
    ELSE LET a == follow(typeParams[i]) IN
         (IF is(a, "UnionType") THEN Len(options[a]) ELSE 1) * product(typeParams, i + 1)

\* distribution gave up on account of the limit: Erroneous, no replacement,
\* no blocked node and no application of the operator
rejected(r) ==
    /\ r.distributed
    /\ r.result = nullopt
    /\ r.reductionStatus = "Erroneous"
    /\ r.blockedTypes = <<>>
    /\ r.trace = <<>>

\* C23 Union distribution limit: distribution returns no replacement with
\* status Erroneous and no blocked node, without applying the operator to any
\* branch, if the product of the option counts of the union arguments exceeds
\* the limit; a product that does not exceed the limit, one equal to it
\* included, is not rejected on account of the limit.
C23_DistributionLimit ==
    distribution =>
       LET size == product(operation.typeParams, 1) IN
       /\ size > ctx.cartesianProductLimit => rejected(operation.outcome)
       /\ size <= ctx.cartesianProductLimit => ~rejected(operation.outcome)

\* what the code does: a product equal to the limit is rejected as well
C23_DistributionLimit_AsBuilt ==
    distribution =>
       LET size == product(operation.typeParams, 1) IN
       /\ size >= ctx.cartesianProductLimit => rejected(operation.outcome)
       /\ size < ctx.cartesianProductLimit => ~rejected(operation.outcome)

\* two unions of two options each under a limit of four
C23_AtLimit ==
    /\ distribution
    /\ product(operation.typeParams, 1) = ctx.cartesianProductLimit
    /\ rejected(operation.outcome)

(***************************************************************************)
(* Properties of the arithmetic operators                                  *)
(***************************************************************************)

\* neither operand is the instance, never or pending, both normalize,
\* neither is error-suppressing and both are exactly number
exactNumbers ==
    LET lhsTy == follow(operation.typeParams[1])
        rhsTy == follow(operation.typeParams[2])
    IN /\ \A ty \in {lhsTy, rhsTy} :
             /\ ty # operation.instance
             /\ ~is(ty, "NeverType")
             /\ ~isPending(ty, ctx)
             /\ normalize(ctx, ty) # nullptr
       /\ \A ty \in {lhsTy, rhsTy} :
             /\ ~normalize(ctx, ty).shouldSuppressErrors
             /\ normalize(ctx, ty).isExactlyNumber

\* C24 Exact fast path: when neither operand of an arithmetic operator is
\* the instance, never or pending, both normalize, neither is
\* error-suppressing and both are exactly number, the result is the number
\* type with status MaybeOk, and neither union distribution nor a
\* metatable-entry lookup nor the call solver is invoked.
C24_ExactFastPath ==
    reduction /\ exactNumbers =>
       /\ operation.outcome.result = Ty("number")
       /\ operation.outcome.reductionStatus = "MaybeOk"
       /\ operation.outcome.blockedTypes = <<>>
       /\ operation.outcome.trace = <<>>

\* C, which is bound to number, is added to number
C24_Witness ==
    /\ reduction
    /\ exactNumbers
    /\ operation.typeParams = <<"C", "number">>
    /\ operation.outcome.result = Ty("number")

\* a union whose options are all number takes the fast path undistributed
C24_WitnessUnion ==
    /\ reduction
    /\ exactNumbers
    /\ operation.typeParams[1] = "union1"
    /\ operation.outcome.trace = <<>>

\* the calls of one kind that a trace holds, in order
calls(trace, op) == SelectSeq(trace, LAMBDA e : e.op = op)

\* the operator went on to the metamethod: distribution found no union among
\* the operands and returned nothing
fallback ==
    /\ reduction
    /\ firstUnion(operation.typeParams) = 0
    /\ operation.outcome.trace # <<>>
    /\ operation.outcome.trace[1] =
          [op |-> "tryDistributeTypeFunctionApp", typeParams |-> operation.typeParams,
           distributed |-> FALSE]

\* the lookups of the claim: the left operand first, the right operand only
\* if the left has no metamethod; Erroneous if neither has it
lookedUp(lhsTy, rhsTy, left, right, r) ==
    /\ calls(r.trace, "findMetatableEntry") =
          <<[op |-> "findMetatableEntry", ty |-> lhsTy]>>
             \o (IF left = nullopt THEN <<[op |-> "findMetatableEntry", ty |-> rhsTy]>>
                 ELSE <<>>)
    /\ left = nullopt /\ right = nullopt =>
          /\ r.result = nullopt /\ r.reductionStatus = "Erroneous"
          /\ r.blockedTypes = <<>>
          /\ calls(r.trace, "solveFunctionCall") = <<>>

\* the call of the claim: solved with (rhs, lhs) and marked reversed if the
\* metamethod was found only on the right, with (lhs, rhs) otherwise; the
\* result is the first type of the return pack, Erroneous if the call is not
\* solved or returns the empty pack
solved(lhsTy, rhsTy, left, mmType, r) ==
    LET pack == IF left = nullopt THEN <<rhsTy, lhsTy>> ELSE <<lhsTy, rhsTy>>
        solveResult == solveFunctionCall(ctx, mmType, pack)
    IN /\ calls(r.trace, "solveFunctionCall") =
             <<[op |-> "solveFunctionCall", fn |-> mmType, argPack |-> pack,
                reversed |-> left = nullopt]>>
       /\ r.blockedTypes = <<>>
       /\ IF solveResult = nullopt \/ solveResult.typePackId = <<>>
          THEN r.result = nullopt /\ r.reductionStatus = "Erroneous"
          ELSE r.result = Ty(solveResult.typePackId[1]) /\ r.reductionStatus = "MaybeOk"

\* C25 Metamethod fallback and reversal, as claimed: the metamethod is looked
\* up on the left operand first and on the right operand only if the left has
\* none; a metamethod that is found is called, with the argument pack
\* (rhs, lhs) and marked reversed if it was found only on the right, with
\* (lhs, rhs) otherwise, and the result is the first type of the solved return
\* pack; it is Erroneous if neither operand has the metamethod, the call
\* cannot be solved or the return pack is empty.
C25_Metamethod_Claimed ==
    fallback =>
       LET lhsTy == follow(operation.typeParams[1])
           rhsTy == follow(operation.typeParams[2])
           left == findMetatableEntry(ctx, lhsTy, metamethodOf(operation.function))
           right == findMetatableEntry(ctx, rhsTy, metamethodOf(operation.function))
           mm == IF left = nullopt THEN right ELSE left
       IN /\ lookedUp(lhsTy, rhsTy, left, right, operation.outcome)
          /\ mm # nullopt => solved(lhsTy, rhsTy, left, follow(mm.ty), operation.outcome)

\* C25 Metamethod fallback and reversal, amended: the metamethod is looked up
\* on the left operand first and on the right operand only if the left has
\* none; Erroneous if neither has it.  A metamethod whose type is pending is
\* not called: the operator returns no replacement with status MaybeOk,
\* blocked on that type.  Otherwise it is called, with the argument pack
\* (rhs, lhs) and marked reversed if it was found only on the right, with
\* (lhs, rhs) otherwise; the result is the first type of the solved return
\* pack, Erroneous if the call cannot be solved or the return pack is empty.
C25_Metamethod ==
    fallback =>
       LET lhsTy == follow(operation.typeParams[1])
           rhsTy == follow(operation.typeParams[2])
           left == findMetatableEntry(ctx, lhsTy, metamethodOf(operation.function))
           right == findMetatableEntry(ctx, rhsTy, metamethodOf(operation.function))
           mm == IF left = nullopt THEN right ELSE left
           r == operation.outcome
       IN /\ lookedUp(lhsTy, rhsTy, left, right, r)
          /\ mm # nullopt /\ isPending(follow(mm.ty), ctx) =>
                /\ calls(r.trace, "solveFunctionCall") = <<>>
                /\ r.result = nullopt /\ r.reductionStatus = "MaybeOk"
                /\ r.blockedTypes = <<follow(mm.ty)>>
          /\ mm # nullopt /\ ~isPending(follow(mm.ty), ctx) =>
                solved(lhsTy, rhsTy, left, follow(mm.ty), r)

\* number + table2: the metamethod of table2 is called with (table2, number)
\* and returns a string first
C25_Witness ==
    /\ fallback
    /\ operation.typeParams = <<"number", "table2">>
    /\ calls(operation.outcome.trace, "solveFunctionCall") =
          <<[op |-> "solveFunctionCall", fn |-> "fn", argPack |-> <<"table2", "number">>,
             reversed |-> TRUE]>>
    /\ operation.outcome.result = Ty("string")

\* table1 + table2: the metamethod of table1 is a blocked type
C25_WitnessPending ==
    /\ fallback
    /\ operation.typeParams = <<"table1", "table2">>
    /\ operation.outcome.blockedTypes = <<"blocked">>

(***************************************************************************)
(* Properties of refine                                                    *)
(***************************************************************************)

\* refine has been applied on its own
refinement == operation.applied /\ operation.call = "refineTypeFunction"

RECURSIVE members(_)
\* the types a union is the union of, nested unions opened
members(u) ==
    UNION {IF is(follow(options[u][i]), "UnionType") THEN members(follow(options[u][i]))
           ELSE {options[u][i]} : i \in DOMAIN options[u]}

\* the target is a union one of whose options is the instance itself
selfOption ==
    LET target == follow(operation.typeParams[1])
    IN is(target, "UnionType") /\ operation.instance \in Range(options[target])

\* t is the union u without the instance and without never: never if nothing
\* is left, the sole remaining option if one is left
without(t, u, instance) ==
    LET rest == {o \in members(u) : o # instance /\ ~is(o, "NeverType")}
    IN IF rest = {} THEN t = Ty("never")
       ELSE IF Cardinality(rest) = 1 THEN \E o \in rest : t = Ty(o)
       ELSE /\ DOMAIN t = {"kind", "types"}
            /\ t.kind = "UnionType"
            /\ Len(t.types) = Cardinality(rest)
            /\ Range(t.types) = {Ty(o) : o \in rest}

\* the targets that refine handed to stepRefine, in order
refined(trace) ==
    LET steps == calls(trace, "stepRefine") IN [i \in DOMAIN steps |-> steps[i].target]

\* C26 Refine occurs-check (union): when the target of a refine instance is a
\* union one of whose options is the instance itself, the target that refine
\* goes on with is the union without that option and without never options,
\* never if nothing is left and the sole remaining option if one is left:
\* it is the target the first discriminant refines, and a replacement that
\* refine returns does not contain the instance.
C26_OccursCheck ==
    refinement /\ selfOption =>
       LET r == operation.outcome
           target == follow(operation.typeParams[1])
       IN /\ r.trace # <<>>
          /\ r.trace[1].op = "substitute"
          /\ r.trace[1].ty = target
          /\ without(r.trace[1].result, target, operation.instance)
          /\ refined(r.trace) # <<>> => refined(r.trace)[1] = r.trace[1].result
          /\ r.result # nullopt =>
                operation.instance \notin once(nodesOf(r.result), {})

\* refine<number | A | string, string>: number | string is what is refined
C26_Witness ==
    /\ refinement
    /\ operation.typeParams = <<"union1", "string">>
    /\ options["union1"] = <<"number", "A", "string">>
    /\ ctx.refine = "refined"
    /\ operation.outcome.result =
          newType("IntersectionType",
                  <<newType("UnionType", <<Ty("number"), Ty("string")>>), Ty("string")>>)

RECURSIVE setMembers(_, _)
\* the members of the unions and intersections of todo, those of nested
\* unions and intersections included
setMembers(todo, seen) ==
    IF todo = <<>> THEN seen
    ELSE LET t == follow(Head(todo)) IN
         IF t \in seen THEN setMembers(Tail(todo), seen)
         ELSE IF is(t, "UnionType") \/ is(t, "IntersectionType")
         THEN setMembers(children(t) \o Tail(todo), seen \cup {t})
         ELSE setMembers(Tail(todo), seen \cup {t})

\* the target is a union or an intersection and the instance is a member of
\* it or of a union or intersection nested inside it
selfMember ==
    LET target == follow(operation.typeParams[1])
    IN /\ is(target, "UnionType") \/ is(target, "IntersectionType")
       /\ operation.instance \in setMembers(children(target), {})

\* the occurrence is below an intersection: the target is an intersection, or
\* no chain of unions leads from the target to the instance
belowIntersection ==
    selfMember /\ ~occurs(follow(operation.typeParams[1]), operation.instance)

\* the instance is not among the nodes that t is built from
free(t) == operation.instance \notin once(nodesOf(t), {})

\* the target was scrubbed: the scrubber ran on it and what it gave is free
\* of the instance
scrubbed ==
    LET r == operation.outcome IN
    /\ r.trace # <<>>
    /\ r.trace[1].op = "substitute"
    /\ free(r.trace[1].result)
    /\ refined(r.trace) # <<>> => refined(r.trace)[1] = r.trace[1].result

\* C36 Refine occurs-check (intersection and nesting): when the instance
\* being reduced is a member of an intersection target, or of a union or
\* intersection nested inside the target, refine detects the occurrence and
\* removes that member before refining, so the returned replacement does not
\* contain the instance.
C36_NestedOccurs ==
    refinement /\ selfMember =>
        /\ scrubbed
        /\ operation.outcome.result # nullopt => free(operation.outcome.result)

\* the occurs-check as built: occurs walks unions only, so with
\* LuauAvoidExcessiveTypeCopying an occurrence below an intersection is not
\* detected, the target is refined as it is and the replacement holds the
\* instance; an occurrence that occurs finds, or any occurrence without the
\* flag, is scrubbed
C36_NestedOccurs_AsBuilt ==
    refinement /\ selfMember =>
        LET r == operation.outcome
            target == follow(operation.typeParams[1])
        IN IF ctx.avoidExcessiveTypeCopying /\ belowIntersection
           THEN /\ calls(r.trace, "substitute") = <<>>
                /\ refined(r.trace) # <<>> => refined(r.trace)[1] = Ty(target)
                /\ r.result # nullopt => ~free(r.result)
           ELSE /\ scrubbed
                /\ r.result # nullopt => free(r.result)

\* refine<A & number, string> was applied to A and the replacement holds A
C36_WitnessKept ==
    /\ refinement
    /\ belowIntersection
    /\ is(follow(operation.typeParams[1]), "IntersectionType")
    /\ operation.outcome.result # nullopt
    /\ ~free(operation.outcome.result)

\* the instance is in an intersection nested in the union that is refined
C36_WitnessNested ==
    /\ refinement
    /\ belowIntersection
    /\ is(follow(operation.typeParams[1]), "UnionType")
    /\ operation.outcome.result # nullopt
    /\ ~free(operation.outcome.result)

(***************************************************************************)
(* Properties of user-defined type functions                               *)
(***************************************************************************)

\* this step is an interrupt check made while the body executes
interruptCheck ==
    /\ sandbox.phase = "running"
    /\ \/ sandbox'.interrupts # sandbox.interrupts
       \/ Len(sandbox'.trace) # Len(sandbox.trace)

\* after this step userDefinedTypeFunction returns no replacement, Erroneous,
\* with the error message of the exception
bodyAborted(exception) ==
    /\ sandbox'.phase = "returned"
    /\ sandbox'.answer.result = nullopt
    /\ sandbox'.answer.reductionStatus = "Erroneous"
    /\ sandbox'.answer.blockedTypes = <<>>
    /\ sandbox'.answer.error = checkResultForError(exception)

\* the errors of one type in a sequence of errors
ofType(errors, type) == SelectSeq(errors, LAMBDA e : e.type = type)

\* this step hands the answer of an aborted body to the run, which records
\* it as an error of the user function and goes on
recorded ==
    /\ pc' \in {"loop", "break"}
    /\ subject \in reducer'.irreducible
    /\ boundTo'[subject] = NULL
    /\ Len(ofType(reducer'.result.errors, "UserDefinedTypeFunctionError"))
          = Len(ofType(reducer.result.errors, "UserDefinedTypeFunctionError")) + 1

\* this step returns from a body that an exception ended
returnsAborted(exceptions) ==
    /\ sandbox.phase = "returned"
    /\ sandbox'.phase = "none"
    /\ sandbox.answer.error \in exceptions

C27_Step_Claimed ==
    /\ interruptCheck /\ ctx.cancellationRequested => bodyAborted("UserCancelError")
    /\ returnsAborted({"UserCancelError"}) => recorded

\* C27 Cancellation, as claimed: if the cancellation token is requested while
\* the body of a user-defined type function is executing, the next interrupt
\* check aborts the body and userDefinedTypeFunction returns no replacement
\* with status Erroneous and an error message about the cancellation; the
\* run records it as an error and goes on.
C27_Cancellation_Claimed == [][C27_Step_Claimed]_vars

C27_Step ==
    /\ interruptCheck /\ ctx.finishTimePassed => bodyAborted("TimeLimitError")
    /\ interruptCheck /\ ctx.cancellationRequested /\ ~ctx.finishTimePassed =>
          bodyAborted("UserCancelError")
    /\ interruptCheck /\ ~ctx.cancellationRequested /\ ~ctx.finishTimePassed =>
          sandbox'.phase = "running"
    /\ returnsAborted({"UserCancelError", "TimeLimitError"}) => recorded

\* C27 Cancellation, amended: if the cancellation token is requested while
\* the body of a user-defined type function is executing, the next interrupt
\* check aborts the body and userDefinedTypeFunction returns no replacement
\* with status Erroneous and an error message, which is about the
\* cancellation unless the time limit has passed as well: the handler tests
\* the time limit first, and the message is then about the time limit.  The
\* run records the answer as an error of the user function, marks the
\* instance irreducible and goes on.
C27_Cancellation == [][C27_Step]_vars

\* the run on A is over: the body of A was cancelled and the run recorded it
C27_Witness ==
    /\ pc = "idle"
    /\ returned.kind = "run"
    /\ ctx.cancellationRequested
    /\ \E i \in DOMAIN applied :
          /\ applied[i].subject = "A"
          /\ applied[i].reduction.error = "UserCancelError"
    /\ ofType(returned.result.errors, "UserDefinedTypeFunctionError") # <<>>

\* the body is aborted with both the token requested and the time limit passed
C27_WitnessBoth ==
    /\ sandbox.phase = "returned"
    /\ ctx.cancellationRequested
    /\ sandbox.answer.error = "TimeLimitError"

\* userDefinedTypeFunction has been called for the subject and has returned
\* or is executing the body
called == sandbox.phase # "none"

\* the calls of one kind made so far by the call of the user function
made(op) == calls(sandbox.trace, op)

\* userDefinedTypeFunction returned at once, before the blocker scan, the
\* registration of a function and the sandbox, with ty as replacement, status
\* MaybeOk and no error message
openTo(ty) ==
    /\ sandbox.phase = "returned"
    /\ sandbox.answer = Answer(Ty(ty), "MaybeOk", <<>>, NULL, <<>>)
    /\ sandbox.trace = <<>>

\* C28 User-function fail-open, as claimed: if evaluation is disabled in the
\* runtime or the definition of the function has parse errors,
\* userDefinedTypeFunction returns the any type as replacement with status
\* MaybeOk and no error message, before scanning arguments for blockers,
\* before registering any function and without entering the sandbox.
C28_FailOpen_Claimed ==
    called /\ (~ctx.allowEvaluation \/ ctx.hasErrors) => openTo("any")

\* C28 User-function fail-open, amended: if evaluation is disabled in the
\* runtime or the definition of the function has parse errors,
\* userDefinedTypeFunction returns the builtin error type as replacement,
\* with status MaybeOk and no error message, before scanning arguments for
\* blockers, before registering any function and without entering the
\* sandbox.
C28_FailOpen ==
    called /\ (~ctx.allowEvaluation \/ ctx.hasErrors) => openTo("error")

\* evaluation is disabled and an alias of the environment is blocked: the
\* call of A returned the error type unscanned
C28_Witness ==
    /\ called
    /\ subject = "A"
    /\ ~ctx.allowEvaluation
    /\ ctx.environmentAlias # <<>>
    /\ openTo("error")

\* the run has bound A to the error type
C28_WitnessBound ==
    /\ pc = "idle"
    /\ returned.kind = "run"
    /\ ctx.hasErrors
    /\ boundTo["A"] = "error"

\* the pending sub-terms of the arguments of the subject and of the aliases
\* without parameters of the environment
pendingTerms ==
    LET given == typeArguments[subject]
        aliases == {a \in Range(ctx.environmentAlias) : a.typeParams = 0}
        roots == {follow(given[i]) : i \in DOMAIN given}
                    \cup {follow(a.type) : a \in aliases}
        walked == UNION {once(<<ty>>, {}) : ty \in roots}
    IN {ty \in walked \cap TypeNodes : isPending(ty, ctx)}

\* userDefinedTypeFunction returned no replacement with status MaybeOk, naming
\* exactly the distinct pending sub-terms; no function was registered, no
\* argument serialized and the body not called
blockedOnPending ==
    /\ sandbox.phase = "returned"
    /\ sandbox.answer.result = nullopt
    /\ sandbox.answer.reductionStatus = "MaybeOk"
    /\ sandbox.answer.error = NULL
    /\ Range(sandbox.answer.blockedTypes) = pendingTerms
    /\ Len(sandbox.answer.blockedTypes) = Cardinality(pendingTerms)
    /\ made("registerFunction") = <<>>
    /\ made("lua_newthread") = <<>>
    /\ made("serialize") = <<>>
    /\ made("lua_pcall") = <<>>

C29_WitnessAlias ==
    /\ sandbox.phase = "returned"
    /\ typeArguments[subject] = <<"number">>
    /\ sandbox.answer.blockedTypes = <<"blocked">>

\* evaluation is disabled and an alias of the environment is blocked
C29_WitnessOpen ==
    /\ called
    /\ pendingTerms # {}
    /\ ~ctx.allowEvaluation
    /\ sandbox.answer.result = Ty("error")

(***************************************************************************)
(* Properties of the guess set                                             *)
(***************************************************************************)

RECURSIVE firstVisits(_, _, _)
\* a depth-first walk from the nodes of todo, each with the number of function
\* instances above it: instance |-> the number of function instances on the
\* traversal stack when it is visited for the first time, itself included
firstVisits(todo, seen, depths) ==
    IF todo = <<>> THEN depths
    ELSE LET n == Head(todo).node
             d == Head(todo).above + (IF isInstance(n) THEN 1 ELSE 0)
             below == [i \in DOMAIN children(n) |-> [node |-> children(n)[i], above |-> d]]
         IN IF n \in seen THEN firstVisits(Tail(todo), seen, depths)
            ELSE firstVisits(below \o Tail(todo), seen \cup {n},
                             IF isInstance(n) THEN depths @@ (n :> d) ELSE depths)

\* the instances that a run from entrypoint flags for guessing, by the claim
flagged(entrypoint) ==
    LET depths == firstVisits(<<[node |-> entrypoint, above |-> 0]>>, {}, <<>>)
    IN {n \in DOMAIN depths : guesserDepth >= 0 /\ depths[n] > guesserDepth}

\* a run has been set up and has not stepped yet
setUp == pc = "loop" /\ iterationCount = 0 /\ applied = <<>>

C30_Step ==
    /\ setUp' => reducer'.shouldGuess = flagged(entry')
    /\ guesserDepth < 0 /\ pc' # "idle" => reducer'.shouldGuess = {}
    /\ pc = "loop" =>
          \A n \in Nodes :
             boundTo'[n] # boundTo[n] => n \in reducer.shouldGuess /\ guesserDepth >= 0

\* C30 Guess threshold: an instance is flagged for guessing exactly when the
\* threshold LuauTypeFamilyUseGuesserDepth is non-negative and the number of
\* function instances on the traversal stack at its first visit, itself
\* included, is greater than the threshold; with a negative threshold the
\* guess set is empty, and a step binds an instance to a guess only if the
\* instance is in the guess set.
C30_GuessThreshold == [][C30_Step]_vars

\* with threshold 1, a run from A = add<C, B> flags B and C, which are two
\* deep, but not A
C30_Witness ==
    /\ setUp
    /\ entry = "A"
    /\ guesserDepth = 1
    /\ typeArguments["A"] = <<"C", "B">>
    /\ reducer.shouldGuess = {"B", "C"}

\* an instance has been bound to a guess: no reducer was called for it
C30_WitnessGuessed ==
    /\ pc = "idle"
    /\ returned.kind = "run"
    /\ guesserDepth = 0
    /\ boundTo["A"] = "number"
    /\ \A i \in DOMAIN applied : applied[i].subject # "A"

(***************************************************************************)
(* Properties of irreducible and generic dependencies                      *)
(***************************************************************************)

\* the argument p resolves to a function instance that is in the irreducible
\* set, is Unsolved and is not in the true-cycle set
irreducibleInstance(p) ==
    LET t == follow(p) IN
    /\ isInstance(t)
    /\ t \in reducer.irreducible
    /\ getState(state, t) = "Unsolved"
    /\ t \notin Range(reducer.cyclicTypeFunctions)

\* the first argument of sub that is not ready, NULL when every one is ready
firstArgument(sub) ==
    LET args == typeArguments[sub] \o packArguments[sub]
        notReady == {i \in DOMAIN args : decides(sub, args[i]) # "Ready"}
    IN IF notReady = {} THEN NULL
       ELSE args[CHOOSE i \in notReady : \A j \in notReady : i <= j]

\* this step pops an instance that reaches testParameters, and the argument
\* that decides is classified Irreducible because of a function instance
irreducibleDependency ==
    /\ tested
    /\ firstArgument(popped) # NULL
    /\ testForSkippability(reducer, firstArgument(popped)) = "Irreducible"

\* this step calls the reducer of an instance
dispatches == pc = "loop" /\ pc' = "reducer"

C31_Step_Claimed ==
    (tested /\ \E p \in Range(typeArguments[popped] \o packArguments[popped]) :
                   irreducibleInstance(p))
    => /\ popped \in reducer'.irreducible
       /\ frontQueue(reducer') = Tail(frontQueue(reducer))

\* C31 as claimed: when an argument of the popped instance resolves to a
\* function instance that is already in the irreducible set (and is not
\* Stuck, Solved or cyclic), the popped instance is added to the irreducible
\* set and is not queued again.
C31_Irreducible_Claimed == [][C31_Step_Claimed]_vars

C31_Step ==
    /\ irreducibleDependency =>
          /\ popped \in reducer'.irreducible
          /\ frontQueue(reducer') = Tail(frontQueue(reducer))
          /\ state' = state
          /\ boundTo' = boundTo
          /\ IF popped \in TypeNodes /\ dispatchedAsCyclic(popped)
             THEN pc' = "reducer" /\ subject' = popped
             ELSE pc' # "reducer"
    /\ dispatches => subject' \notin reducer.irreducible
    /\ pc # "idle" /\ pc' # "idle" => reducer.irreducible \subseteq reducer'.irreducible

\* C31 Irreducibility propagates, amended: when the first argument of the
\* popped instance that is not ready (type arguments in order, then pack
\* arguments) resolves, possibly through an intersection, to a function
\* instance that is in the irreducible set, the popped instance is added to
\* the irreducible set and is not queued again, and no tri-state changes;
\* its reducer is invoked in that step only if the instance is in the
\* true-cycle set and Unsolved.  No step of a run calls the reducer of an
\* instance that is in the irreducible set when it is popped, and the set
\* only grows during the run.
C31_Irreducible == [][C31_Step]_vars

\* A<C, B> was popped after the reducer of C had answered that C is blocked:
\* C is irreducible and Unsolved, A is irreducible and its reducer has not
\* been invoked
C31_Witness ==
    /\ pc = "loop"
    /\ typeArguments["A"] = <<"C", "B">>
    /\ "C" \in reducer.irreducible /\ state["C"] = "Unsolved" /\ boundTo["C"] = NULL
    /\ "A" \in reducer.irreducible /\ state["A"] = "Unsolved"
    /\ "A" \notin Range(reducer.queuedTys)
    /\ "A" \notin Range(reducer.cyclicTypeFunctions)
    /\ \E i \in DOMAIN applied : applied[i].subject = "C"
    /\ \A i \in DOMAIN applied : applied[i].subject # "A"

\* the nodes of an intersection that end the test of an argument: function
\* instances and generic types
ends(t) == isInstance(t) \/ is(t, "GenericType")

\* the argument p resolves to a generic type, directly or as the first part
\* of an intersection that is a function instance or a generic type
resolvesToGeneric(p) ==
    LET t == follow(p)
        found == {i \in DOMAIN parts : ends(follow(parts[i]))}
    IN \/ is(t, "GenericType")
       \/ /\ is(t, "IntersectionType")
          /\ found # {}
          /\ is(follow(parts[CHOOSE i \in found : \A j \in found : i <= j]), "GenericType")

\* the first argument of sub that is not classified Okay or cyclic, NULL when
\* there is none
firstClassified(sub) ==
    LET args == typeArguments[sub] \o packArguments[sub]
        notReady == {i \in DOMAIN args :
                        testForSkippability(reducer, args[i]) \notin {"Okay", "CyclicTypeFunction"}}
    IN IF notReady = {} THEN NULL
       ELSE args[CHOOSE i \in notReady : \A j \in notReady : i <= j]

\* BuiltinTypeFunctions: the functions constructed with canReduceGenerics
OverGenerics == {"and", "or", "refine"}

C32_Step_Claimed ==
    (/\ tested /\ popped \in TypeNodes
     /\ firstClassified(popped) # NULL
     /\ resolvesToGeneric(firstClassified(popped)))
    => IF function[popped] \in OverGenerics
       THEN pc' = "reducer" /\ subject' = popped
       ELSE /\ popped \in reducer'.irreducible
            /\ state'[popped] = "Solved"
            /\ frontQueue(reducer') = Tail(frontQueue(reducer))
            /\ pc' = "reducer" => popped \in Range(reducer.cyclicTypeFunctions)

\* C32 as claimed: when the first non-ready argument of an instance resolves
\* (through intersections) to a generic type, the instance is treated as
\* ready if its function has canReduceGenerics set, and otherwise it is added
\* to the irreducible set, its tri-state is set to Solved, it is not
\* re-queued and its reducer is not invoked (unless the instance is cyclic).
C32_Generic_Claimed == [][C32_Step_Claimed]_vars

\* every argument of sub is ready or resolves to a generic type, and one does
overGenericsOnly(sub) ==
    LET args == Range(typeArguments[sub] \o packArguments[sub]) IN
    /\ \E p \in args : p \in TypeNodes /\ resolvesToGeneric(p)
    /\ \A p \in args :
          \/ p \in TypeNodes /\ resolvesToGeneric(p)
          \/ testForSkippability(reducer, p) \in {"Okay", "CyclicTypeFunction"}

C32_Step ==
    /\ (/\ tested /\ popped \in TypeNodes
        /\ function[popped] \notin OverGenerics
        /\ firstClassified(popped) # NULL
        /\ firstClassified(popped) \in TypeNodes
        /\ resolvesToGeneric(firstClassified(popped)))
       => /\ popped \in reducer'.irreducible
          /\ frontQueue(reducer') = Tail(frontQueue(reducer))
          /\ owningArena[popped] = "arena" => state' = [state EXCEPT ![popped] = "Solved"]
          /\ owningArena[popped] # "arena" => state' = state
          /\ boundTo' = boundTo
          /\ IF dispatchedAsCyclic(popped)
             THEN pc' = "reducer" /\ subject' = popped
             ELSE pc' # "reducer"
    /\ (/\ tested /\ popped \in TypeNodes
        /\ function[popped] \in OverGenerics
        /\ overGenericsOnly(popped))
       => /\ pc' = "reducer" /\ subject' = popped
          /\ reducer'.irreducible = reducer.irreducible
          /\ frontQueue(reducer') = Tail(frontQueue(reducer))
          /\ state' = state

\* C32 Generic dependency, amended: when the first argument of a type
\* instance that is not plainly ready resolves, directly or through an
\* intersection, to a generic type and the function of the instance does not
\* have canReduceGenerics, the instance is added to the irreducible set and
\* is not queued again, its tri-state is set to Solved if the engine's arena
\* owns it and is left alone otherwise, and its reducer is invoked only if
\* the instance is in the true-cycle set and Unsolved.  If the function has
\* canReduceGenerics, a generic argument is passed over: the instance is
\* ready when each of its other arguments is.
C32_Generic == [][C32_Step]_vars

\* A = add<generic, B> of the engine's arena was popped: it is irreducible
\* and Solved, and its reducer has not been invoked
C32_Witness ==
    /\ pc = "loop"
    /\ function["A"] = "add" /\ typeArguments["A"] = <<"generic", "B">>
    /\ owningArena["A"] = "arena"
    /\ "A" \in reducer.irreducible /\ state["A"] = "Solved"
    /\ "A" \notin Range(reducer.queuedTys)
    /\ \A i \in DOMAIN applied : applied[i].subject # "A"

\* A = or<inter, B>, where the intersection holds a generic type, was ready
\* once B had been reduced: its reducer has been invoked
C32_WitnessReady ==
    /\ pc = "loop"
    /\ function["A"] = "or" /\ typeArguments["A"] = <<"inter", "B">>
    /\ parts = <<"number", "generic">>
    /\ \E i \in DOMAIN applied : applied[i].subject = "A"

\* A = add<generic, B> of another arena was popped: it is irreducible and
\* still Unsolved
C32_WitnessForeign ==
    /\ pc = "loop"
    /\ function["A"] = "add" /\ typeArguments["A"] = <<"generic", "B">>
    /\ owningArena["A"] = "foreign"
    /\ "A" \in reducer.irreducible /\ state["A"] = "Unsolved"

(***************************************************************************)
(* Properties of the operators                                             *)
(***************************************************************************)

\* an operator has been applied on its own
operated == operation.applied /\ operation.call = "operator"

\* an operand of the operation resolves to the instance being reduced
ownOperand ==
    \E i \in DOMAIN operation.typeParams :
        follow(operation.typeParams[i]) = operation.instance

\* the operators that the guard is claimed for
Guarded == Unary \cup Arithmetic \cup {"concat"} \cup Comparisons \cup {"eq"}

\* the operation returned the never type and is blocked on nothing
returnedNever ==
    /\ operation.outcome.result = Ty("never")
    /\ operation.outcome.reductionStatus = "MaybeOk"
    /\ operation.outcome.blockedTypes = <<>>

\* C33 Self-reference guard in every operator: for not, len, unm, add, sub,
\* mul, div, idiv, pow, mod, concat, lt, le and eq, if an argument resolves to
\* the instance being reduced the reducer returns the never type as
\* replacement, and the instance is never reported as blocked on itself.
C33_SelfGuard ==
    (operated /\ operation.function \in Guarded /\ ownOperand)
    => /\ returnedNever
       /\ operation.instance \notin Range(operation.outcome.blockedTypes)

\* the guard as built: every operator of the list but eq returns never for
\* an operand that is the instance; eq has no guard and, when the operand on
\* the left or else the one on the right is the instance and is Unsolved,
\* reports the instance as blocked on itself
C33_SelfGuard_AsBuilt ==
    (operated /\ ownOperand) =>
        /\ operation.function \in Guarded \ {"eq"} => returnedNever
        /\ (/\ operation.function = "eq"
            /\ state[operation.instance] = "Unsolved"
            /\ follow(operation.typeParams[1]) = operation.instance)
           => /\ operation.outcome.result = nullopt
              /\ operation.outcome.blockedTypes = <<operation.instance>>

\* a logical operator has been applied to the instance
logical == operated /\ operation.function \in Logical

\* the operands of the operation that resolve to the instance being reduced
ownOperands ==
    {i \in DOMAIN operation.typeParams :
        follow(operation.typeParams[i]) = operation.instance}

\* the operand of a binary operation that is not operand i
other(i) == operation.typeParams[3 - i]

\* ty is blocked, a pending expansion or an Unsolved function instance
pendingOperand(ty) == isPending(follow(ty), ctx) \/ isUnreduced(follow(ty))

\* C34 Logical and/or fixpoint: for an and or or instance t with arguments
\* (lhs, rhs), if exactly one of the two arguments resolves to t, the reducer
\* returns the other argument (what it resolves to) as replacement with
\* status MaybeOk, blocked on nothing and without calling the simplifier,
\* also when that other argument is pending.
C34_Fixpoint ==
    \A i \in {1, 2} :
        (logical /\ ownOperands = {i}) =>
            /\ operation.outcome.result = Ty(follow(other(i)))
            /\ operation.outcome.reductionStatus = "MaybeOk"
            /\ operation.outcome.blockedTypes = <<>>
            /\ operation.outcome.trace = <<>>

\* and<blocked, A> was applied to A: the blocked operand is the replacement
C34_Witness ==
    /\ logical
    /\ operation.function = "and"
    /\ ownOperands = {2}
    /\ pendingOperand(other(2))
    /\ operation.outcome.result = Ty("blocked")

\* or<A, blocked> was applied to A, which is Unsolved
C34_WitnessOr ==
    /\ logical
    /\ operation.function = "or"
    /\ ownOperands = {1}
    /\ state[operation.instance] = "Unsolved"
    /\ pendingOperand(other(1))
    /\ operation.outcome.result = Ty("blocked")

\* unm has been applied to an operand that resolves to the never type
negatedNever ==
    /\ operated
    /\ operation.function = "unm"
    /\ is(follow(operation.typeParams[1]), "NeverType")

\* C35 Unary negation of bottom: unm applied to an operand that is the never
\* type returns never as replacement, and this is decided before the
\* normalizer is consulted, so the outcome does not depend on whether
\* normalization of the operand succeeds.
C35_NegatedNever ==
    negatedNever =>
        /\ returnedNever
        /\ calls(operation.outcome.trace, "normalize") = <<>>

\* unm of never as built: the operand is normalized first, and the
\* replacement is never only if the normalizer answers; if it gives up,
\* there is no replacement and nothing to wait for
C35_NegatedNever_AsBuilt ==
    negatedNever =>
        /\ calls(operation.outcome.trace, "normalize") = <<normalized("never")>>
        /\ normalize(ctx, "never") # nullptr => returnedNever
        /\ normalize(ctx, "never") = nullptr
           => /\ operation.outcome.result = nullopt
              /\ operation.outcome.reductionStatus = "MaybeOk"
              /\ operation.outcome.blockedTypes = <<>>

\* unm of never was applied when the normalizer gives up on never
C35_WitnessGivenUp ==
    negatedNever /\ normalize(ctx, "never") = nullptr /\ operation.outcome.result = nullopt

(***************************************************************************)
(* Properties of the invocations of a run                                  *)
(***************************************************************************)

\* the positions of invoked at which the reducer of n was invoked
invocations(n) == {i \in DOMAIN invoked : invoked[i] = n}

\* C40 Invoked at most once: within one run the reducer of any given
\* function-instance node is invoked at most once: after its first
\* invocation the node is either bound or in the irreducible set, so every
\* later pop of a queue entry that resolves to it is skipped.
C40_AtMostOnce ==
    /\ \A n \in Range(invoked) : Cardinality(invocations(n)) <= 1
    /\ pc # "idle" =>
          \A i \in DOMAIN applied :
             \/ boundTo[applied[i].subject] # NULL
             \/ applied[i].subject \in reducer.irreducible

\* the invocations as built: a node of the engine's arena is bound or
\* irreducible once its reducer has returned and is invoked at most once; a
\* node of another arena whose reducer returned a replacement is not bound
\* and not irreducible, and is invoked again when a later entry resolves to it
C40_AtMostOnce_AsBuilt ==
    /\ \A i \in DOMAIN applied :
          LET n == applied[i].subject
              refused == owningArena[n] # "arena" /\ applied[i].reduction.result # NULL
          IN /\ pc # "idle" /\ ~refused => boundTo[n] # NULL \/ n \in reducer.irreducible
             /\ refused => boundTo[n] = NULL
             /\ \A j \in invocations(n) : i < j => refused
    /\ \A n \in Range(invoked) :
          owningArena[n] = "arena" => Cardinality(invocations(n)) <= 1

\* the reducer of an instance of another arena was invoked twice in one run
C40_WitnessTwice ==
    \E n \in Range(invoked) :
        /\ owningArena[n] # "arena"
        /\ Cardinality(invocations(n)) = 2

(***************************************************************************)
(* Properties of deferral                                                  *)
(***************************************************************************)

\* run k is in its loop
looping(k) == pc = "loop" /\ runs = k

\* run k has returned with both queues empty
emptied(k) == pc = "idle" /\ runs = k /\ returned.kind = "run" /\ returned.done

\* the nodes that the entries of the queues of r resolve to
queuedNodes(r) == {follow(q) : q \in Range(r.queuedTys) \cup Range(r.queuedTps)}

RECURSIVE awaited(_, _)
\* the function instances that an argument is looked through to: the
\* argument itself and the parts of intersections
awaited(todo, seen) ==
    IF todo = <<>> THEN {n \in seen : isInstance(n)}
    ELSE LET t == follow(Head(todo)) IN
         IF t \in seen THEN awaited(Tail(todo), seen)
         ELSE IF is(t, "IntersectionType") THEN awaited(Tail(todo) \o parts, seen \cup {t})
         ELSE awaited(Tail(todo), seen \cup {t})

\* the step to come defers the instance at the front of the queue
defers == tested /\ expected(popped) = "Defer"

\* the nodes that stay queued when the front entry is popped
stillQueued ==
    {follow(q) : q \in Range(Tail(frontQueue(reducer)))
                      \cup (IF reducer.queuedTys # <<>> THEN Range(reducer.queuedTps)
                            ELSE {})}

\* the function instances that the deferral is on
deferredOn == {n \in awaited(<<firstArgument(popped)>>, {}) : n \notin reducer.irreducible}

\* the deferral to come is on a function instance that is not queued
stranded == defers /\ deferredOn \cap stillQueued = {}

\* run k has returned
finished(k) == pc = "idle" /\ runs = k /\ returned.kind = "run"

\* C37 Deferral makes progress: an instance is deferred only on a function
\* instance that is itself still in the work queue at that moment, so a run
\* empties both queues without reaching the iteration budget; this includes
\* an inner instance bound to a fresh union-function instance and an inner
\* instance whose binding was rejected because it belongs to another arena.
C37_Progress ==
    /\ [](~stranded)
    /\ \A k \in 1..Requests : looping(k) ~> emptied(k)

\* deferral as built: every run returns, but an instance may be deferred on
\* an instance that is not queued, and a run in which that happens to an
\* instance outside the true-cycle set does not empty its queues: it ends at
\* the iteration budget with the CodeTooComplex diagnostic
C37_Progress_AsBuilt ==
    /\ \A k \in 1..Requests : looping(k) ~> finished(k)
    /\ \A k \in 1..Requests :
          []((looping(k) /\ stranded /\ popped \notin Range(reducer.cyclicTypeFunctions))
               => [](finished(k) =>
                       /\ ~returned.done
                       /\ count(returned.result.errors, "CodeTooComplex") = 1))

\* B is about to be deferred on the fresh union instance that C was bound to
\* and that was never queued
C37_WitnessFresh ==
    /\ pc = "loop"
    /\ stranded
    /\ popped = "B"
    /\ boundTo["C"] = FreshInstance
    /\ deferredOn = {FreshInstance}

\* B is about to be deferred on C, whose binding was rejected
C37_WitnessForeign ==
    /\ pc = "loop"
    /\ stranded
    /\ popped = "B"
    /\ owningArena["C"] # "arena"
    /\ \E i \in DOMAIN applied :
          applied[i].subject = "C" /\ applied[i].reduction.result # NULL
    /\ deferredOn = {"C"}

\* the type instance at the front waits for the pack instance p in run k
starved(k, p) ==
    /\ looping(k)
    /\ defers
    /\ popped \in TypeNodes
    /\ firstArgument(popped) \in PackNodes
    /\ follow(firstArgument(popped)) = p

\* the pack instance p has been stepped in run k: it is bound or irreducible
served(k, p) ==
    /\ runs = k
    /\ \/ boundTo[p] # NULL
       \/ p \in reducer.irreducible
       \/ pc = "idle" /\ p \in returned.irreducible

\* C38 No starvation across queues: if a type function instance is deferred
\* because one of its pack arguments resolves to a type-pack function
\* instance that is not yet irreducible, that pack instance is eventually
\* stepped; the scheduler does not keep re-deferring the type instance while
\* the pack queue is never served.
C38_NoStarvation ==
    \A k \in 1..Requests : \A p \in PackInstances : starved(k, p) ~> served(k, p)

\* the queues as built: stepPack runs only when queuedTys is empty, so a
\* type instance outside the true-cycle set that waits for a pack instance
\* is deferred again and again, the pack instance is never stepped, and the
\* run ends at the iteration budget
C38_NoStarvation_AsBuilt ==
    \A k \in 1..Requests : \A p \in PackInstances :
        []((starved(k, p) /\ popped \notin Range(reducer.cyclicTypeFunctions))
             => [](runs = k => /\ ~served(k, p)
                               /\ finished(k) => ~returned.done))

\* B has been deferred several times while P waits in the pack queue
C38_WitnessStarved ==
    /\ starved(1, "P")
    /\ popped = "B"
    /\ iterationCount >= 4
    /\ reducer.queuedTps = <<"P">>

=============================================================================
